---------------------------- MODULE Spec2Model ----------------------------
(***************************************************************************)
(* A model of the finmoney crate: FinMoneyCurrency (src/src/currency.rs),  *)
(* FinMoneyRoundingStrategy (src/src/rounding.rs) and FinMoney             *)
(* (src/src/money.rs) with its arithmetic, comparison and tick operations. *)
(*                                                                         *)
(* A Decimal is a record [neg, m, e]: sign, coefficient and scale, with    *)
(* value (-1)^neg * m / 10^e, the representation of rust_decimal::Decimal. *)
(* The engine works at a maximum scale (28 in rust_decimal, MaxScale       *)
(* here): a quotient or a product with more decimal places is rounded to   *)
(* it. Sums and differences are exact; the coefficients of the modelled    *)
(* values stay far below the engine's 96 bits.                             *)
(***************************************************************************)
EXTENDS Integers, Sequences, FiniteSets, TLC

\* The grid of amounts the model draws from: coefficients up to MaxMant at
\* scales up to MaxAmountScale.
MaxMant == 4

MaxAmountScale == 3

\* The decimal engine's maximum scale (28 in rust_decimal), scaled down.
MaxScale == 6

\* The largest magnitude the decimal engine holds (Decimal::MAX, 2^96 - 1 in
\* rust_decimal), scaled down.
MaxMagnitude == 1000

-----------------------------------------------------------------------------
(* The decimal engine, as FinMoney uses it. *)

RECURSIVE Pow10(_)
Pow10(n) == IF n <= 0 THEN 1 ELSE 10 * Pow10(n - 1)

Abs(i) == IF i < 0 THEN -i ELSE i

MaxOf(i, j) == IF i >= j THEN i ELSE j

\* The signed coefficient of a Decimal.
SignedMant(x) == IF x.neg THEN -x.m ELSE x.m

\* Decimal::new(num, scale): num / 10^scale.
DecimalNew(num, scale) == [neg |-> num < 0, m |-> Abs(num), e |-> scale]

DecimalZERO == DecimalNew(0, 0)

\* Decimal::is_zero
DecIsZero(x) == x.m = 0

\* Decimal::is_sign_negative: the sign flag, which a zero can carry.
is_sign_negative(x) == x.neg

\* Decimal::is_sign_positive
is_sign_positive(x) == ~x.neg

\* -x (impl Neg for Decimal): the sign flag is flipped, on zero as well.
DecNeg(x) == [x EXCEPT !.neg = ~x.neg]

\* Decimal::abs
DecAbs(x) == [x EXCEPT !.neg = FALSE]

\* The signed coefficient of x written at scale e (e >= x.e).
AtScale(x, e) == SignedMant(x) * Pow10(e - x.e)

\* Decimal's PartialEq / Ord compare values, not representations.
DecCmp(x, y) ==
    LET e == MaxOf(x.e, y.e)
        a == AtScale(x, e)
        b == AtScale(y, e)
    IN  IF a < b THEN "Less" ELSE IF a > b THEN "Greater" ELSE "Equal"

DecEq(x, y) == DecCmp(x, y) = "Equal"

DecLt(x, y) == DecCmp(x, y) = "Less"

DecLe(x, y) == DecCmp(x, y) # "Greater"

DecGt(x, y) == DecCmp(x, y) = "Greater"

DecGe(x, y) == DecCmp(x, y) # "Less"

\* Decimal + Decimal: exact, at the larger of the two scales.
DecAdd(x, y) ==
    LET e == MaxOf(x.e, y.e)
    IN  DecimalNew(AtScale(x, e) + AtScale(y, e), e)

\* Decimal - Decimal
DecSub(x, y) ==
    LET e == MaxOf(x.e, y.e)
    IN  DecimalNew(AtScale(x, e) - AtScale(y, e), e)

\* Decimal::MAX
DecimalMAX == DecimalNew(MaxMagnitude, 0)

\* The whole part of the magnitude of x.
IntegerPart(x) == x.m \div Pow10(x.e)

\* A sum or difference the engine cannot hold at any scale: Decimal's + and -
\* panic on it (checked_add and checked_sub return None).
DecOverflowed(x) == IntegerPart(x) > MaxMagnitude

\* The largest k in lo..hi with k * k <= n.
RECURSIVE ISqrtBetween(_, _, _)
ISqrtBetween(n, lo, hi) ==
    IF lo >= hi THEN lo
    ELSE LET mid == (lo + hi + 1) \div 2
         IN  IF mid * mid <= n THEN ISqrtBetween(n, mid, hi)
             ELSE ISqrtBetween(n, lo, mid - 1)

\* Decimal::sqrt for an amount that is not negative, an approximation of the
\* root: the values the root lies between, one decimal place past half the
\* scale of x.
DecSqrt(x) ==
    LET e2 == x.e + (x.e % 2)
        n  == x.m * Pow10(e2 - x.e) * 100
        f  == ISqrtBetween(n, 0, IF n < 40000 THEN n ELSE 40000)
        s  == (e2 \div 2) + 1
    IN  IF f * f = n THEN { DecimalNew(f, s) }
        ELSE { DecimalNew(f, s), DecimalNew(f + 1, s) }

\* Decimal * Decimal: zero when a factor is zero; otherwise the scales add,
\* and a product of more than MaxScale decimal places is rounded half to
\* even at MaxScale.
DecMul(x, y) ==
    IF x.m = 0 \/ y.m = 0 THEN DecimalZERO
    ELSE LET p == x.m * y.m
             s == x.e + y.e
         IN  IF s <= MaxScale
             THEN [neg |-> x.neg # y.neg, m |-> p, e |-> s]
             ELSE LET unit == Pow10(s - MaxScale)
                      q    == p \div unit
                      r    == p % unit
                      m2   == IF 2 * r > unit \/ (2 * r = unit /\ q % 2 = 1)
                              THEN q + 1 ELSE q
                  IN  [neg |-> (x.neg # y.neg) /\ m2 # 0, m |-> m2,
                       e |-> MaxScale]

\* Long division: q is the quotient so far at scale s, r the remainder of the
\* division by den. Digits are added while the remainder is not zero and the
\* scale is below MaxScale; a remainder left at MaxScale rounds the last
\* digit half to even.
RECURSIVE DivDigits(_, _, _, _)
DivDigits(q, r, den, s) ==
    IF r = 0 THEN [q |-> q, s |-> s]
    ELSE IF s >= MaxScale
         THEN [q |-> IF 2 * r > den \/ (2 * r = den /\ q % 2 = 1)
                     THEN q + 1 ELSE q,
               s |-> s]
         ELSE DivDigits(10 * q + ((10 * r) \div den), (10 * r) % den, den, s + 1)

\* Decimal / Decimal for a divisor that is not zero: the quotient starts at
\* scale x.e - y.e (the dividend is scaled up when that is negative) and is
\* extended digit by digit.
DecDiv(x, y) ==
    IF x.m = 0 THEN DecimalZERO
    ELSE LET num == x.m * Pow10(MaxOf(y.e - x.e, 0))
             s0  == MaxOf(x.e - y.e, 0)
             qs  == DivDigits(num \div y.m, num % y.m, y.m, s0)
         IN  [neg |-> (x.neg # y.neg) /\ qs.q # 0, m |-> qs.q, e |-> qs.s]

\* Decimal::fract().is_zero(): no digit after the decimal point is set.
DecFractIsZero(x) == x.m % Pow10(x.e) = 0

-----------------------------------------------------------------------------
(* FinMoneyRoundingStrategy and rounding to a number of decimal places. *)

Strategies ==
    { "MidpointNearestEven", "MidpointAwayFromZero", "MidpointTowardZero",
      "ToZero", "AwayFromZero", "ToNegativeInfinity", "ToPositiveInfinity" }

\* FinMoneyRoundingStrategy::default()
DefaultStrategy == "MidpointNearestEven"

\* to_decimal_strategy: each variant maps to the engine's mode of the same
\* name; the engine's modes are named by the same strings.
to_decimal_strategy(strategy) ==
    CASE strategy = "MidpointNearestEven"  -> "MidpointNearestEven"
      [] strategy = "MidpointAwayFromZero" -> "MidpointAwayFromZero"
      [] strategy = "MidpointTowardZero"   -> "MidpointTowardZero"
      [] strategy = "ToZero"               -> "ToZero"
      [] strategy = "AwayFromZero"         -> "AwayFromZero"
      [] strategy = "ToNegativeInfinity"   -> "ToNegativeInfinity"
      [] strategy = "ToPositiveInfinity"   -> "ToPositiveInfinity"

\* The directed modes applied to the magnitude, whatever the sign.
RoundsAway_by_magnitude(mode, neg, q, r, unit) ==
    CASE mode = "MidpointNearestEven"  ->
             2 * r > unit \/ (2 * r = unit /\ q % 2 = 1)
      [] mode = "MidpointAwayFromZero" -> 2 * r >= unit
      [] mode = "MidpointTowardZero"   -> 2 * r > unit
      [] mode = "ToZero"               -> FALSE
      [] mode = "AwayFromZero"         -> r > 0
      [] mode = "ToNegativeInfinity"   -> FALSE
      [] mode = "ToPositiveInfinity"   -> r > 0

\* Whether the engine's mode moves the magnitude q (with q digits kept, r the
\* digits cut off, unit the weight of the last digit kept) one step away from
\* zero.
RoundsAway(mode, neg, q, r, unit) ==
    CASE mode = "MidpointNearestEven"  ->
             2 * r > unit \/ (2 * r = unit /\ q % 2 = 1)
      [] mode = "MidpointAwayFromZero" -> 2 * r >= unit
      [] mode = "MidpointTowardZero"   -> 2 * r > unit
      [] mode = "ToZero"               -> FALSE
      [] mode = "AwayFromZero"         -> r > 0
      [] mode = "ToNegativeInfinity"   -> neg /\ r > 0
      [] mode = "ToPositiveInfinity"   -> ~neg /\ r > 0

\* Decimal::round_dp_with_strategy(dp, mode): a value of scale <= dp is
\* returned as it is; otherwise the result has scale dp and the sign flag of
\* x, also when every digit kept is zero.
DecRoundDpWithStrategy(x, dp, mode) ==
    IF x.e <= dp THEN x
    ELSE LET unit == Pow10(x.e - dp)
             q    == x.m \div unit
             r    == x.m % unit
             m2   == IF RoundsAway(mode, x.neg, q, r, unit) THEN q + 1 ELSE q
         IN  [neg |-> x.neg, m |-> m2, e |-> dp]

\* Decimal::round_dp(dp): banker's rounding.
DecRoundDp(x, dp) == DecRoundDpWithStrategy(x, dp, "MidpointNearestEven")

\* Decimal::trunc: the digits after the point dropped, the sign flag kept.
DecTrunc(x) == [neg |-> x.neg, m |-> x.m \div Pow10(x.e), e |-> 0]

\* Decimal::floor: the value itself at scale 0, else the truncation, less
\* one for a negative value with a fraction.
DecFloor(x) ==
    IF x.e = 0 THEN x
    ELSE IF x.neg /\ ~DecFractIsZero(x)
         THEN DecSub(DecTrunc(x), DecimalNew(1, 0))
         ELSE DecTrunc(x)

\* Decimal::ceil: the value itself at scale 0, else the truncation, plus
\* one for a positive value with a fraction.
DecCeil(x) ==
    IF x.e = 0 THEN x
    ELSE IF ~x.neg /\ ~DecFractIsZero(x)
         THEN DecAdd(DecTrunc(x), DecimalNew(1, 0))
         ELSE DecTrunc(x)

\* Trailing zeros of the coefficient m at scale e removed.
RECURSIVE StripZeros(_, _)
StripZeros(m, e) ==
    IF e > 0 /\ m % 10 = 0 THEN StripZeros(m \div 10, e - 1)
    ELSE [m |-> m, e |-> e]

\* Decimal::normalize: zero of any sign and scale becomes 0; otherwise the
\* trailing zeros are stripped.
DecNormalize(x) ==
    IF x.m = 0 THEN DecimalZERO
    ELSE LET r == StripZeros(x.m, x.e)
         IN  [neg |-> x.neg, m |-> r.m, e |-> r.e]

-----------------------------------------------------------------------------
(* FinMoneyCurrency: id, optional name (<<>> is None, <<n>> is Some(n)),    *)
(* code, precision. A string is a sequence of characters; a character is   *)
(* named by a string.                                                      *)

\* The precision limit of the descriptors.
MaxPrecision == 28

\* The capacity of TinyAsciiStr<16> (code) and TinyAsciiStr<52> (name).
CodeCapacity == 16

NameCapacity == 52

\* The NUL character, which is ASCII and which a TinyAsciiStr cannot hold.
Nul == "NUL"

\* Characters outside ASCII, of 2 and 3 bytes in UTF-8.
NonAsciiChars == { "e-acute", "trademark" }

is_ascii(ch) == ch \notin NonAsciiChars

\* char::len_utf8
len_utf8(ch) ==
    CASE ch = "e-acute"   -> 2
      [] ch = "trademark" -> 3
      [] OTHER            -> 1

\* str::len: the length in bytes.
RECURSIVE StrLen(_)
StrLen(str) == IF str = <<>> THEN 0 ELSE len_utf8(Head(str)) + StrLen(Tail(str))

MinOf(i, j) == IF i <= j THEN i ELSE j

\* str::parse::<TinyAsciiStr<N>>(): fails on a string of more than N bytes,
\* on a NUL and on a character outside ASCII; <<>> is Err, <<t>> is Ok(t).
TinyAsciiStrParse(str, capacity) ==
    IF /\ StrLen(str) <= capacity
       /\ \A i \in 1..Len(str) : is_ascii(str[i]) /\ str[i] # Nul
    THEN <<str>> ELSE <<>>

\* FinMoneyCurrency::sanitize_ascii_truncate
sanitize_ascii_truncate(input, max_len) ==
    [i \in 1..MinOf(Len(input), max_len) |->
        IF is_ascii(input[i]) THEN input[i] ELSE "_"]

\* FinMoneyCurrency::sanitize_and_parse_name
sanitize_and_parse_name(name) ==
    IF TinyAsciiStrParse(name, NameCapacity) # <<>>
    THEN TinyAsciiStrParse(name, NameCapacity)
    ELSE TinyAsciiStrParse(sanitize_ascii_truncate(name, NameCapacity),
                           NameCapacity)

\* The code parsed as it is given, without the sanitizing second attempt.
sanitize_and_parse_code_direct(code) == TinyAsciiStrParse(code, CodeCapacity)

\* FinMoneyCurrency::sanitize_and_parse_code
sanitize_and_parse_code(code) ==
    IF TinyAsciiStrParse(code, CodeCapacity) # <<>>
    THEN TinyAsciiStrParse(code, CodeCapacity)
    ELSE TinyAsciiStrParse(sanitize_ascii_truncate(code, CodeCapacity),
                           CodeCapacity)

\* FinMoneyCurrency::UNDEFINED_CODE
UNDEFINED_CODE == <<"U", "N", "D", "E", "F", "I", "N", "E", "D">>

\* FinMoneyCurrency::INVALID_CODE
INVALID_CODE == <<"I", "N", "V", "A", "L", "I", "D">>

\* The struct FinMoneyCurrency.
FinMoneyCurrency(id, name, code, precision) ==
    [id |-> id, name |-> name, code |-> code, precision |-> precision]

\* FinMoneyCurrency::default()
FinMoneyCurrencyDefault == FinMoneyCurrency(0, <<>>, UNDEFINED_CODE, 8)

\* FinMoneyCurrency::USD
USD == FinMoneyCurrency(1, <<>>, <<"U", "S", "D">>, 2)

\* FinMoneyCurrency::EUR
EUR == FinMoneyCurrency(2, <<>>, <<"E", "U", "R">>, 2)

\* FinMoneyCurrency::BTC
BTC == FinMoneyCurrency(3, <<>>, <<"B", "T", "C">>, 8)

\* FinMoneyCurrency::ETH
ETH == FinMoneyCurrency(4, <<>>, <<"E", "T", "H">>, 18)

\* Ok(FinMoneyCurrency)
OkCurrency(c) == [tag |-> "Ok", ty |-> "currency", currency |-> c]

\* FinMoneyError::InvalidPrecision(p)
InvalidPrecision(p) == [tag |-> "Err", err |-> "InvalidPrecision", value |-> p]

\* FinMoneyError::InvalidCurrencyCode(code)
InvalidCurrencyCode(code) ==
    [tag |-> "Err", err |-> "InvalidCurrencyCode", value |-> code]

\* FinMoneyError::InvalidCurrencyName(name)
InvalidCurrencyName(name) ==
    [tag |-> "Err", err |-> "InvalidCurrencyName", value |-> name]

\* FinMoneyCurrency::new with the code checked before the name.
FinMoneyCurrencyNew_code_first(id, code, name, precision) ==
    IF precision > MaxPrecision THEN InvalidPrecision(precision)
    ELSE IF sanitize_and_parse_code(code) = <<>>
         THEN InvalidCurrencyCode(code)
         ELSE IF name # <<>> /\ sanitize_and_parse_name(name[1]) = <<>>
              THEN InvalidCurrencyName(name[1])
              ELSE OkCurrency(FinMoneyCurrency(
                       id,
                       IF name = <<>> THEN <<>>
                       ELSE sanitize_and_parse_name(name[1]),
                       sanitize_and_parse_code(code)[1], precision))

\* FinMoneyCurrency::new
FinMoneyCurrencyNew(id, code, name, precision) ==
    IF precision > MaxPrecision THEN InvalidPrecision(precision)
    ELSE IF name # <<>> /\ sanitize_and_parse_name(name[1]) = <<>>
         THEN InvalidCurrencyName(name[1])
         ELSE LET parsed_name == IF name = <<>> THEN <<>>
                                 ELSE sanitize_and_parse_name(name[1])
                  parsed_code == sanitize_and_parse_code(code)
              IN  IF parsed_code = <<>> THEN InvalidCurrencyCode(code)
                  ELSE OkCurrency(FinMoneyCurrency(id, parsed_name,
                                                   parsed_code[1], precision))

\* FinMoneyCurrency::new_from_tiny: code and name are TinyAsciiStr values.
new_from_tiny(id, code, name, precision) ==
    IF precision > MaxPrecision THEN InvalidPrecision(precision)
    ELSE OkCurrency(FinMoneyCurrency(id, name, code, precision))

\* The code of default() as the fallback.
new_sanitized_undefined_fallback(id, code, name, precision) ==
    FinMoneyCurrency(
        id,
        IF name = <<>> THEN <<>> ELSE sanitize_and_parse_name(name[1]),
        IF sanitize_and_parse_code(code) = <<>> THEN UNDEFINED_CODE
        ELSE sanitize_and_parse_code(code)[1],
        MinOf(precision, MaxPrecision))

\* The precision passed on without the clamp.
new_sanitized_unclamped(id, code, name, precision) ==
    FinMoneyCurrency(
        id,
        IF name = <<>> THEN <<>> ELSE sanitize_and_parse_name(name[1]),
        IF sanitize_and_parse_code(code) = <<>> THEN INVALID_CODE
        ELSE sanitize_and_parse_code(code)[1],
        precision)

\* FinMoneyCurrency::new_sanitized
new_sanitized(id, code, name, precision) ==
    LET clamped_precision == MinOf(precision, MaxPrecision)
        sanitized_name    == IF name = <<>> THEN <<>>
                             ELSE sanitize_and_parse_name(name[1])
        sanitized_code    == IF sanitize_and_parse_code(code) = <<>>
                             THEN INVALID_CODE
                             ELSE sanitize_and_parse_code(code)[1]
    IN  FinMoneyCurrency(id, sanitized_name, sanitized_code, clamped_precision)

\* The precision stored without the check.
with_precision_unchecked(self, precision) ==
    OkCurrency(FinMoneyCurrency(self.id, self.name, self.code, precision))

\* FinMoneyCurrency::with_precision
with_precision(self, precision) ==
    IF precision > MaxPrecision THEN InvalidPrecision(precision)
    ELSE OkCurrency(FinMoneyCurrency(self.id, self.name, self.code, precision))

\* The currencies of the money values: USD, EUR, a descriptor that shares its
\* id with USD under another code, name and precision, and one that shares
\* its code with USD under another id.
Currencies ==
    { USD, EUR,
      new_from_tiny(1, <<"U", "S", "X">>,
                    << <<"D", "o", "l", "l", "a", "r">> >>, 3).currency,
      new_from_tiny(5, <<"U", "S", "D">>, <<>>, 0).currency }

\* A descriptor comparison in place of the id comparison.
is_same_currency_by_descriptor(a, b) == a = b

\* FinMoneyCurrency::is_same_currency
is_same_currency(a, b) == a.id = b.id

-----------------------------------------------------------------------------
(* The values the model draws from. *)

\* Amounts: the grid of coefficients at the scales 0..MaxAmountScale, the
\* amounts of the crate's tests and examples (10.567, 10.625, 10.50, 5.25),
\* and the smallest amounts the engine holds: one unit of its last place.
Amounts ==
    { DecimalNew(m, e) : m \in -MaxMant..MaxMant, e \in 0..MaxAmountScale }
    \cup { DecimalNew(10567, 3), DecimalNew(-10567, 3), DecimalNew(10625, 3),
           DecimalNew(-10625, 3), DecimalNew(1050, 2), DecimalNew(525, 2),
           DecimalNew(1, MaxScale), DecimalNew(-1, MaxScale) }

\* The decimals passed as divisor, factor, addend or tick: powers of ten
\* written with coefficient 1 and with trailing zeros, other ticks, zero and
\* negative ones.
Decimals ==
    { DecimalNew(0, 0), DecimalNew(0, 2),
      DecimalNew(1, 0), DecimalNew(1, 1), DecimalNew(1, 2), DecimalNew(1, 3),
      DecimalNew(10, 1), DecimalNew(10, 2), DecimalNew(10, 3),
      DecimalNew(25, 2), DecimalNew(5, 1), DecimalNew(3, 0), DecimalNew(3, 1),
      DecimalNew(9, 0), DecimalNew(10, 0), DecimalNew(100, 0),
      DecimalNew(101, 0),
      DecimalNew(-25, 2), DecimalNew(-1, 0), DecimalNew(-1, 2),
      DecimalNew(-3, 0) }

\* FinMoney::new(amount, currency)
FinMoneyNew(amount, currency) == [amount |-> amount, currency |-> currency]

Moneys == { FinMoneyNew(a, c) : a \in Amounts, c \in Currencies }

\* The amounts of the money values passed as the other operand.
OtherAmounts ==
    { DecimalNew(0, 0), DecimalNew(0, 2), DecimalNew(1, 0), DecimalNew(10, 1),
      DecimalNew(-2, 0), DecimalNew(25, 2), DecimalNew(1050, 2),
      DecimalNew(12, 0), DecimalNew(-30, 0) }

OtherMoneys == { FinMoneyNew(a, c) : a \in OtherAmounts, c \in Currencies }

\* The amounts of the initial values passed to percent_change_from: the
\* difference from each, times 100, stays a coefficient the model can hold.
InitialAmounts ==
    { DecimalNew(0, 0), DecimalNew(0, 2), DecimalNew(1, 0), DecimalNew(10, 1),
      DecimalNew(-2, 0), DecimalNew(25, 2) }

InitialMoneys == { FinMoneyNew(a, c) : a \in InitialAmounts, c \in Currencies }

\* An initial amount whose quotients do not terminate; it is passed with the
\* amounts of few digits and decimal places, whose quotient stays a
\* coefficient the model can hold.
RepeatingInitialAmount == DecimalNew(7, 0)

\* The initial values passed with the value x.
InitialsFor(x) ==
    InitialMoneys
        \cup (IF x.amount.m <= MaxMant /\ x.amount.e <= MaxAmountScale
              THEN { FinMoneyNew(RepeatingInitialAmount, c) : c \in Currencies }
              ELSE {})

-----------------------------------------------------------------------------
(* Results: Ok of a FinMoney, a bool, an Ordering or a Decimal, or Err of a *)
(* FinMoneyError.                                                          *)

OkMoney(v) == [tag |-> "Ok", ty |-> "money", money |-> v]

OkBool(b) == [tag |-> "Ok", ty |-> "bool", bool |-> b]

OkOrdering(o) == [tag |-> "Ok", ty |-> "ordering", ord |-> o]

OkDecimal(d) == [tag |-> "Ok", ty |-> "decimal", dec |-> d]

\* An Option<u32> returned by value: <<>> is None, <<dp>> is Some(dp).
OkOption(o) == [tag |-> "Ok", ty |-> "option", opt |-> o]

\* FinMoneyError::CurrencyMismatch { expected, actual }
CurrencyMismatch(expected, actual) ==
    [tag |-> "Err", err |-> "CurrencyMismatch",
     expected |-> expected, actual |-> actual]

\* FinMoneyError::DivisionByZero
DivisionByZero ==
    [tag |-> "Err", err |-> "DivisionByZero", expected |-> "", actual |-> ""]

\* FinMoneyError::InvalidTick
InvalidTick ==
    [tag |-> "Err", err |-> "InvalidTick", expected |-> "", actual |-> ""]

\* Ok(()) of assert_same_currency
OkUnit == [tag |-> "Ok", ty |-> "unit"]

\* panic!(msg): the call does not return.
Panic(msg) == [tag |-> "Panic", msg |-> msg]

IsPanic(r) == r.tag = "Panic"

IsOk(r) == r.tag = "Ok"

IsErr(r) == r.tag = "Err"

-----------------------------------------------------------------------------
(* FinMoney: internal helpers. *)

\* The check made on the currency codes in place of the ids.
assert_same_currency_by_code(self, other) ==
    IF self.currency.code # other.currency.code
    THEN CurrencyMismatch(self.currency.code, other.currency.code)
    ELSE OkUnit

\* FinMoney::assert_same_currency
assert_same_currency(self, other) ==
    IF ~is_same_currency(self.currency, other.currency)
    THEN CurrencyMismatch(self.currency.code, other.currency.code)
    ELSE OkUnit

\* The default strategy used in place of the one passed.
round_result_default_strategy(self, value, strategy) ==
    DecRoundDpWithStrategy(value, self.currency.precision,
                           to_decimal_strategy(DefaultStrategy))

\* FinMoney::round_result
round_result(self, value, strategy) ==
    DecRoundDpWithStrategy(value, self.currency.precision,
                           to_decimal_strategy(strategy))

\* FinMoney::rescale
\* The amount rounded half away from zero in place of banker's rounding.
rescale_half_away(self, new_precision) ==
    LET new_currency == with_precision(self.currency, new_precision)
    IN  IF new_currency.tag = "Err" THEN new_currency
        ELSE OkMoney(FinMoneyNew(
                 DecRoundDpWithStrategy(self.amount, new_precision,
                                        "MidpointAwayFromZero"),
                 new_currency.currency))

rescale(self, new_precision) ==
    LET new_currency == with_precision(self.currency, new_precision)
    IN  IF new_currency.tag = "Err" THEN new_currency
        ELSE OkMoney(FinMoneyNew(DecRoundDp(self.amount, new_precision),
                                 new_currency.currency))

-----------------------------------------------------------------------------
(* FinMoney: arithmetic. `check ?; body` is written Try(check, body). *)

Try(check, body) == IF IsErr(check) THEN check ELSE body

plus_money(self, other) ==
    Try(assert_same_currency(self, other),
        LET sum == DecAdd(self.amount, other.amount)
        IN  IF DecOverflowed(sum) THEN Panic("Addition overflowed")
            ELSE OkMoney(FinMoneyNew(sum, self.currency)))

plus_decimal(self, d) == FinMoneyNew(DecAdd(self.amount, d), self.currency)

minus_money(self, other) ==
    Try(assert_same_currency(self, other),
        LET difference == DecSub(self.amount, other.amount)
        IN  IF DecOverflowed(difference) THEN Panic("Subtraction overflowed")
            ELSE OkMoney(FinMoneyNew(difference, self.currency)))

minus_decimal(self, d) == FinMoneyNew(DecSub(self.amount, d), self.currency)

multiplied_by_money(self, other) ==
    Try(assert_same_currency(self, other),
        OkMoney(FinMoneyNew(DecMul(self.amount, other.amount), self.currency)))

\* The product rounded to the currency's precision, as a quotient is.
multiplied_by_decimal_rounded(self, d) ==
    FinMoneyNew(DecRoundDp(DecMul(self.amount, d), self.currency.precision),
                self.currency)

multiplied_by_decimal(self, d) ==
    FinMoneyNew(DecMul(self.amount, d), self.currency)

\* The zero check made before the currency check.
divided_by_money_zero_first(self, other, round_strategy) ==
    IF DecIsZero(other.amount) THEN DivisionByZero
    ELSE Try(assert_same_currency(self, other),
             OkMoney(FinMoneyNew(
                 round_result(self, DecDiv(self.amount, other.amount),
                              round_strategy),
                 self.currency)))

divided_by_money(self, other, round_strategy) ==
    Try(assert_same_currency(self, other),
        IF DecIsZero(other.amount) THEN DivisionByZero
        ELSE LET raw     == DecDiv(self.amount, other.amount)
                 rounded == round_result(self, raw, round_strategy)
             IN  OkMoney(FinMoneyNew(rounded, self.currency)))

divided_by_decimal(self, d, round_strategy) ==
    IF DecIsZero(d) THEN DivisionByZero
    ELSE LET raw     == DecDiv(self.amount, d)
             rounded == round_result(self, raw, round_strategy)
         IN  OkMoney(FinMoneyNew(rounded, self.currency))

-----------------------------------------------------------------------------
(* FinMoney: comparison. *)

compare_to(self, other) ==
    Try(assert_same_currency(self, other),
        OkOrdering(DecCmp(self.amount, other.amount)))

compare(self, other) == compare_to(self, other)

\* The receiver returned only when its amount is strictly smaller.
min_strict(self, other) ==
    Try(assert_same_currency(self, other),
        OkMoney(IF DecLt(self.amount, other.amount) THEN self ELSE other))

min(self, other) ==
    Try(assert_same_currency(self, other),
        OkMoney(IF DecLe(self.amount, other.amount) THEN self ELSE other))

max(self, other) ==
    Try(assert_same_currency(self, other),
        OkMoney(IF DecGe(self.amount, other.amount) THEN self ELSE other))

is_less_than(self, other) ==
    Try(assert_same_currency(self, other),
        OkBool(DecLt(self.amount, other.amount)))

is_less_than_or_equal(self, other) ==
    Try(assert_same_currency(self, other),
        OkBool(DecLe(self.amount, other.amount)))

is_greater_than(self, other) ==
    Try(assert_same_currency(self, other),
        OkBool(DecGt(self.amount, other.amount)))

is_greater_than_or_equal(self, other) ==
    Try(assert_same_currency(self, other),
        OkBool(DecGe(self.amount, other.amount)))

\* FinMoney::percent_change_from
percent_change_from(self, initial) ==
    Try(assert_same_currency(self, initial),
        IF DecIsZero(initial.amount) THEN DivisionByZero
        ELSE OkDecimal(DecDiv(DecMul(DecSub(self.amount, initial.amount),
                                     DecimalNew(100, 0)),
                              initial.amount)))

negative_percent_change_from_same_sign(self, initial) ==
    percent_change_from(self, initial)

\* FinMoney::negative_percent_change_from
negative_percent_change_from(self, initial) ==
    Try(assert_same_currency(self, initial),
        IF DecIsZero(initial.amount) THEN DivisionByZero
        ELSE OkDecimal(DecDiv(DecMul(DecSub(initial.amount, self.amount),
                                     DecimalNew(100, 0)),
                              initial.amount)))

\* FinMoney::percent_change (a static method)
percent_change(initial, new_value) == percent_change_from(new_value, initial)

\* FinMoney::negative_percent_change (a static method)
negative_percent_change(initial, new_value) ==
    negative_percent_change_from(new_value, initial)

\* impl Add for FinMoney
add(self, rhs) == plus_money(self, rhs)

\* impl Sub for FinMoney
sub(self, rhs) == minus_money(self, rhs)

\* impl Mul<Decimal> for FinMoney
mul(self, rhs) == multiplied_by_decimal(self, rhs)

\* FinMoney::new_with_precision
new_with_precision(amount, currency, strategy) ==
    LET s == to_decimal_strategy(strategy)
    IN  FinMoneyNew(DecRoundDpWithStrategy(amount, currency.precision, s),
                    currency)

\* FinMoney::rounded
rounded(self, strategy) ==
    FinMoneyNew(round_result(self, self.amount, strategy), self.currency)

\* FinMoney::round_dp_with_strategy
round_dp_with_strategy(self, dp, strategy) ==
    LET s == to_decimal_strategy(strategy)
    IN  FinMoneyNew(DecRoundDpWithStrategy(self.amount, dp, s), self.currency)

\* result.expect(msg) of an assignment *self = result.expect(msg): the value
\* assigned and the outcome of the statement.
Expect(self, result, msg) ==
    IF IsOk(result) THEN [self |-> result.money, out |-> OkUnit]
    ELSE IF IsErr(result) THEN [self |-> self, out |-> Panic(msg)]
    ELSE [self |-> self, out |-> result]

\* impl AddAssign for FinMoney
add_assign(self, rhs) ==
    Expect(self, plus_money(self, rhs), "Currency mismatch in AddAssign")

\* impl SubAssign for FinMoney
sub_assign(self, rhs) ==
    Expect(self, minus_money(self, rhs), "Currency mismatch in SubAssign")

\* FinMoney::sqrt: the outcomes of self.amount.sqrt().unwrap().
sqrt(self) ==
    IF DecLt(self.amount, DecimalZERO)
    THEN { Panic("called Option::unwrap() on a None value") }
    ELSE { OkMoney(FinMoneyNew(r, self.currency)) : r \in DecSqrt(self.amount) }

-----------------------------------------------------------------------------
(* FinMoney: tick operations. An Option<u32> is <<>> (None) or <<dp>>. *)

\* A power of ten recognised by its value, and its own scale returned.
tick_power10_dp_by_value(tick) ==
    IF \E d \in 0..tick.e : DecEq(tick, DecimalNew(1, d))
    THEN <<tick.e>> ELSE <<>>

\* A power of ten recognised by its magnitude, whatever its sign.
tick_power10_dp_by_magnitude(tick) ==
    LET dp == tick.e
    IN  IF DecEq(DecAbs(tick), DecimalNew(1, dp)) THEN <<dp>> ELSE <<>>

\* FinMoney::tick_power10_dp
tick_power10_dp(tick) ==
    LET dp == tick.e
    IN  IF DecEq(tick, DecimalNew(1, dp)) THEN <<dp>> ELSE <<>>

\* Only a zero tick rejected, as is_multiple_of_tick does.
to_tick_zero_check(self, tick, strategy) ==
    IF DecIsZero(tick) THEN InvalidTick
    ELSE LET s    == to_decimal_strategy(strategy)
             fast == tick_power10_dp(tick)
         IN  IF fast # <<>>
             THEN OkMoney(FinMoneyNew(
                      DecRoundDpWithStrategy(self.amount, fast[1], s),
                      self.currency))
             ELSE OkMoney(FinMoneyNew(
                      DecMul(DecRoundDpWithStrategy(DecDiv(self.amount, tick),
                                                    0, s), tick),
                      self.currency))

\* The rounded number of ticks returned without multiplying back.
to_tick_no_multiply(self, tick, strategy) ==
    IF DecLe(tick, DecimalZERO) THEN InvalidTick
    ELSE LET s    == to_decimal_strategy(strategy)
             fast == tick_power10_dp(tick)
         IN  IF fast # <<>>
             THEN OkMoney(FinMoneyNew(
                      DecRoundDpWithStrategy(self.amount, fast[1], s),
                      self.currency))
             ELSE OkMoney(FinMoneyNew(
                      DecRoundDpWithStrategy(DecDiv(self.amount, tick), 0, s),
                      self.currency))

\* The general path rounding the number of ticks with the default strategy.
to_tick_default_strategy(self, tick, strategy) ==
    IF DecLe(tick, DecimalZERO) THEN InvalidTick
    ELSE LET s    == to_decimal_strategy(strategy)
             fast == tick_power10_dp(tick)
         IN  IF fast # <<>>
             THEN OkMoney(FinMoneyNew(
                      DecRoundDpWithStrategy(self.amount, fast[1], s),
                      self.currency))
             ELSE OkMoney(FinMoneyNew(
                      DecMul(DecRoundDp(DecDiv(self.amount, tick), 0), tick),
                      self.currency))

\* FinMoney::to_tick
to_tick(self, tick, strategy) ==
    IF DecLe(tick, DecimalZERO) THEN InvalidTick
    ELSE LET s    == to_decimal_strategy(strategy)
             fast == tick_power10_dp(tick)
         IN  IF fast # <<>>
             THEN LET amt == DecRoundDpWithStrategy(self.amount, fast[1], s)
                  IN  OkMoney(FinMoneyNew(amt, self.currency))
             ELSE LET k         == DecDiv(self.amount, tick)
                      k_rounded == DecRoundDpWithStrategy(k, 0, s)
                      amt       == DecMul(k_rounded, tick)
                  IN  OkMoney(FinMoneyNew(amt, self.currency))

to_tick_down(self, tick) == to_tick(self, tick, "ToNegativeInfinity")

to_tick_up(self, tick) == to_tick(self, tick, "ToPositiveInfinity")

to_tick_nearest(self, tick) == to_tick(self, tick, "MidpointNearestEven")

\* A zero amount accepted before the zero tick is rejected.
is_multiple_of_tick_zero_amount_first(self, tick) ==
    IF DecIsZero(self.amount) THEN TRUE
    ELSE IF DecIsZero(tick) THEN FALSE
    ELSE LET fast == tick_power10_dp(tick)
         IN  IF fast # <<>>
             THEN DecEq(DecRoundDp(self.amount, fast[1]), self.amount)
             ELSE DecFractIsZero(DecDiv(self.amount, tick))

\* Zero and negative ticks rejected alike, as to_tick does.
is_multiple_of_tick_positive_only(self, tick) ==
    IF DecLe(tick, DecimalZERO) THEN FALSE
    ELSE LET fast == tick_power10_dp(tick)
         IN  IF fast # <<>>
             THEN DecEq(DecRoundDp(self.amount, fast[1]), self.amount)
             ELSE DecFractIsZero(DecDiv(self.amount, tick))

\* FinMoney::is_multiple_of_tick
is_multiple_of_tick(self, tick) ==
    IF DecIsZero(tick) THEN FALSE
    ELSE LET fast == tick_power10_dp(tick)
         IN  IF fast # <<>>
             THEN LET amt == DecRoundDp(self.amount, fast[1])
                  IN  DecEq(amt, self.amount)
             ELSE LET k == DecDiv(self.amount, tick)
                  IN  DecFractIsZero(k)

\* FinMoney's derived PartialEq: amounts compare by value, the currency
\* descriptors field by field.
MoneyEq(a, b) == DecEq(a.amount, b.amount) /\ a.currency = b.currency

\* FinMoney::is_zero
is_zero(self) == DecIsZero(self.amount)

\* The sign predicates decided by the value alone.
is_positive_or_zero_by_value(self) == DecGe(self.amount, DecimalZERO)

\* FinMoney::is_positive
is_positive(self) == is_sign_positive(self.amount) /\ ~DecIsZero(self.amount)

\* FinMoney::is_negative
is_negative(self) == is_sign_negative(self.amount) /\ ~DecIsZero(self.amount)

\* FinMoney::is_positive_or_zero
is_positive_or_zero(self) == is_sign_positive(self.amount)

\* FinMoney::is_negative_or_zero
is_negative_or_zero(self) ==
    is_sign_negative(self.amount) \/ DecIsZero(self.amount)

\* FinMoney::abs
abs(self) == FinMoneyNew(DecAbs(self.amount), self.currency)

\* FinMoney::negated
negated(self) == FinMoneyNew(DecNeg(self.amount), self.currency)

\* FinMoney::floor
floor(self) == FinMoneyNew(DecFloor(self.amount), self.currency)

\* FinMoney::ceil
ceil(self) == FinMoneyNew(DecCeil(self.amount), self.currency)

\* FinMoney::trunc
trunc(self) == FinMoneyNew(DecTrunc(self.amount), self.currency)

\* The normalized amount returned in the default currency.
normalize_in_default_currency(self) ==
    FinMoneyNew(DecNormalize(self.amount), FinMoneyCurrencyDefault)

\* FinMoney::normalize
normalize(self) == FinMoneyNew(DecNormalize(self.amount), self.currency)

\* FinMoney::round_dp
round_dp(self, dp) == FinMoneyNew(DecRoundDp(self.amount, dp), self.currency)

\* The derived equality in place of the comparison of ids and amounts.
is_equal_to_derived(self, other) == MoneyEq(self, other)

\* FinMoney::is_equal_to
is_equal_to(self, other) ==
    is_same_currency(self.currency, other.currency)
        /\ DecEq(self.amount, other.amount)

\* FinMoney::is_amount_and_currency_equal_to
is_amount_and_currency_equal_to(self, other) == is_equal_to(self, other)

-----------------------------------------------------------------------------
(* The state: the FinMoney value the caller holds (self), and the call it  *)
(* has made on it and whose result it holds: the call's name, arguments    *)
(* and return value. op = "new" when no call is pending: the caller makes  *)
(* one call, then keeps the returned FinMoney as self or drops the result. *)

VARIABLES self, op, other, dec, strategy, out

\* The currency descriptor a caller holds (cur), and the call that produced
\* it: its name, its arguments and its return value.
VARIABLES cur, cop, carg, cres

moneyVars == <<self, op, other, dec, strategy, out>>

currencyVars == <<cur, cop, carg, cres>>

vars == <<self, op, other, dec, strategy, out, cur, cop, carg, cres>>

\* The arguments a call does not take are recorded as these.
NoMoney == FinMoneyNew(DecimalZERO, USD)

NoDecimal == DecimalZERO

NoStrategy == "-"

\* The arguments of a currency call: the receiver, id, code, name, precision
\* and the amount of the money value rescaled; those a call does not take
\* are recorded as in NoArgs.
Args(receiver, id, code, name, precision, amount) ==
    [self |-> receiver, id |-> id, code |-> code, name |-> name,
     precision |-> precision, amount |-> amount]

NoArgs == Args(FinMoneyCurrencyDefault, 0, <<>>, <<>>, 0, DecimalZERO)

\* No currency call is made on the descriptor of the money values.
CurrencyIdle ==
    /\ cur = FinMoneyCurrencyDefault
    /\ cop = "start"
    /\ carg = NoArgs
    /\ cres = OkCurrency(FinMoneyCurrencyDefault)

Init ==
    /\ self \in Moneys
    /\ op = "new"
    /\ other = NoMoney
    /\ dec = NoDecimal
    /\ strategy = NoStrategy
    /\ out = OkMoney(self)
    /\ CurrencyIdle

\* A call self.name(other) of a method taking a FinMoney.
CallMoney(name, F(_, _)) ==
    \E y \in OtherMoneys :
        /\ op = "new"
        /\ op' = name
        /\ other' = y
        /\ dec' = NoDecimal
        /\ strategy' = NoStrategy
        /\ out' = F(self, y)
        /\ UNCHANGED self
        /\ UNCHANGED currencyVars

\* A call self.name(d) of a method taking a Decimal and returning a FinMoney.
CallDecimal(name, F(_, _)) ==
    \E d \in Decimals :
        /\ op = "new"
        /\ op' = name
        /\ other' = NoMoney
        /\ dec' = d
        /\ strategy' = NoStrategy
        /\ out' = OkMoney(F(self, d))
        /\ UNCHANGED self
        /\ UNCHANGED currencyVars

\* A call self.name(tick) of a tick method returning a Result.
CallTick(name, F(_, _)) ==
    \E t \in Decimals :
        /\ op = "new"
        /\ op' = name
        /\ other' = NoMoney
        /\ dec' = t
        /\ strategy' = NoStrategy
        /\ out' = F(self, t)
        /\ UNCHANGED self
        /\ UNCHANGED currencyVars

\* let self = FinMoney::new(amount, currency)
New ==
    \E m \in Moneys :
        /\ op = "new"
        /\ self' = m
        /\ op' = "new"
        /\ other' = NoMoney
        /\ dec' = NoDecimal
        /\ strategy' = NoStrategy
        /\ out' = OkMoney(m)
        /\ UNCHANGED currencyVars

\* The zero values with the sign flag set, as negated and rounding return
\* them.
NegativeZeros ==
    { FinMoneyNew(DecNeg(m.amount), m.currency) :
          m \in { z \in Moneys : DecIsZero(z.amount) } }

\* let self = <the FinMoney the call returned>, while it is one of the
\* modelled values.
Rebind ==
    /\ op # "new"
    /\ IsOk(out) /\ out.ty = "money"
    /\ out.money \in Moneys \cup NegativeZeros
    /\ self' = out.money
    /\ op' = "new"
    /\ other' = NoMoney
    /\ dec' = NoDecimal
    /\ strategy' = NoStrategy
    /\ out' = OkMoney(self')
    /\ UNCHANGED currencyVars

\* The result of the call goes out of scope.
Drop ==
    /\ op # "new"
    /\ op' = "new"
    /\ other' = NoMoney
    /\ dec' = NoDecimal
    /\ strategy' = NoStrategy
    /\ out' = OkMoney(self)
    /\ UNCHANGED self
    /\ UNCHANGED currencyVars

PlusMoney == CallMoney("plus_money", plus_money)

MinusMoney == CallMoney("minus_money", minus_money)

MultipliedByMoney == CallMoney("multiplied_by_money", multiplied_by_money)

DividedByMoney ==
    \E y \in OtherMoneys, s \in Strategies :
        /\ op = "new"
        /\ op' = "divided_by_money"
        /\ other' = y
        /\ dec' = NoDecimal
        /\ strategy' = s
        /\ out' = divided_by_money(self, y, s)
        /\ UNCHANGED self
        /\ UNCHANGED currencyVars

PlusDecimal == CallDecimal("plus_decimal", plus_decimal)

MinusDecimal == CallDecimal("minus_decimal", minus_decimal)

MultipliedByDecimal == CallDecimal("multiplied_by_decimal", multiplied_by_decimal)

DividedByDecimal ==
    \E d \in Decimals, s \in Strategies :
        /\ op = "new"
        /\ op' = "divided_by_decimal"
        /\ other' = NoMoney
        /\ dec' = d
        /\ strategy' = s
        /\ out' = divided_by_decimal(self, d, s)
        /\ UNCHANGED self
        /\ UNCHANGED currencyVars

Compare == CallMoney("compare", compare)

CompareTo == CallMoney("compare_to", compare_to)

Min == CallMoney("min", min)

Max == CallMoney("max", max)

IsLessThan == CallMoney("is_less_than", is_less_than)

IsLessThanOrEqual == CallMoney("is_less_than_or_equal", is_less_than_or_equal)

IsGreaterThan == CallMoney("is_greater_than", is_greater_than)

IsGreaterThanOrEqual ==
    CallMoney("is_greater_than_or_equal", is_greater_than_or_equal)

PercentChangeFrom ==
    \E initial \in InitialsFor(self) :
        /\ op = "new"
        /\ op' = "percent_change_from"
        /\ other' = initial
        /\ dec' = NoDecimal
        /\ strategy' = NoStrategy
        /\ out' = percent_change_from(self, initial)
        /\ UNCHANGED self
        /\ UNCHANGED currencyVars

NegativePercentChangeFrom ==
    \E initial \in InitialsFor(self) :
        /\ op = "new"
        /\ op' = "negative_percent_change_from"
        /\ other' = initial
        /\ dec' = NoDecimal
        /\ strategy' = NoStrategy
        /\ out' = negative_percent_change_from(self, initial)
        /\ UNCHANGED self
        /\ UNCHANGED currencyVars

\* FinMoney::percent_change(initial, new_value), with the value held as
\* new_value.
PercentChange ==
    \E initial \in InitialsFor(self) :
        /\ op = "new"
        /\ op' = "percent_change"
        /\ other' = initial
        /\ dec' = NoDecimal
        /\ strategy' = NoStrategy
        /\ out' = percent_change(initial, self)
        /\ UNCHANGED self
        /\ UNCHANGED currencyVars

\* FinMoney::negative_percent_change(initial, new_value), with the value
\* held as new_value.
NegativePercentChange ==
    \E initial \in InitialsFor(self) :
        /\ op = "new"
        /\ op' = "negative_percent_change"
        /\ other' = initial
        /\ dec' = NoDecimal
        /\ strategy' = NoStrategy
        /\ out' = negative_percent_change(initial, self)
        /\ UNCHANGED self
        /\ UNCHANGED currencyVars

Add == CallMoney("add", add)

Sub == CallMoney("sub", sub)

Mul == CallDecimal("mul", mul)

ToTick ==
    \E t \in Decimals, s \in Strategies :
        /\ op = "new"
        /\ op' = "to_tick"
        /\ other' = NoMoney
        /\ dec' = t
        /\ strategy' = s
        /\ out' = to_tick(self, t, s)
        /\ UNCHANGED self
        /\ UNCHANGED currencyVars

ToTickDown == CallTick("to_tick_down", to_tick_down)

ToTickUp == CallTick("to_tick_up", to_tick_up)

ToTickNearest == CallTick("to_tick_nearest", to_tick_nearest)

\* self.is_zero()
IsZero ==
    /\ op = "new"
    /\ op' = "is_zero"
    /\ other' = NoMoney
    /\ dec' = NoDecimal
    /\ strategy' = NoStrategy
    /\ out' = OkBool(is_zero(self))
    /\ UNCHANGED self
    /\ UNCHANGED currencyVars

\* self.is_positive()
IsPositive ==
    /\ op = "new"
    /\ op' = "is_positive"
    /\ other' = NoMoney
    /\ dec' = NoDecimal
    /\ strategy' = NoStrategy
    /\ out' = OkBool(is_positive(self))
    /\ UNCHANGED self
    /\ UNCHANGED currencyVars

\* self.is_negative()
IsNegative ==
    /\ op = "new"
    /\ op' = "is_negative"
    /\ other' = NoMoney
    /\ dec' = NoDecimal
    /\ strategy' = NoStrategy
    /\ out' = OkBool(is_negative(self))
    /\ UNCHANGED self
    /\ UNCHANGED currencyVars

\* self.is_positive_or_zero()
IsPositiveOrZero ==
    /\ op = "new"
    /\ op' = "is_positive_or_zero"
    /\ other' = NoMoney
    /\ dec' = NoDecimal
    /\ strategy' = NoStrategy
    /\ out' = OkBool(is_positive_or_zero(self))
    /\ UNCHANGED self
    /\ UNCHANGED currencyVars

\* self.is_negative_or_zero()
IsNegativeOrZero ==
    /\ op = "new"
    /\ op' = "is_negative_or_zero"
    /\ other' = NoMoney
    /\ dec' = NoDecimal
    /\ strategy' = NoStrategy
    /\ out' = OkBool(is_negative_or_zero(self))
    /\ UNCHANGED self
    /\ UNCHANGED currencyVars

\* self.abs()
AbsOf ==
    /\ op = "new"
    /\ op' = "abs"
    /\ other' = NoMoney
    /\ dec' = NoDecimal
    /\ strategy' = NoStrategy
    /\ out' = OkMoney(abs(self))
    /\ UNCHANGED self
    /\ UNCHANGED currencyVars

\* self.negated()
Negated ==
    /\ op = "new"
    /\ op' = "negated"
    /\ other' = NoMoney
    /\ dec' = NoDecimal
    /\ strategy' = NoStrategy
    /\ out' = OkMoney(negated(self))
    /\ UNCHANGED self
    /\ UNCHANGED currencyVars

\* self.is_equal_to(other)
IsEqualTo ==
    \E y \in OtherMoneys :
        /\ op = "new"
        /\ op' = "is_equal_to"
        /\ other' = y
        /\ dec' = NoDecimal
        /\ strategy' = NoStrategy
        /\ out' = OkBool(is_equal_to(self, y))
        /\ UNCHANGED self
        /\ UNCHANGED currencyVars

\* self.is_amount_and_currency_equal_to(other)
IsAmountAndCurrencyEqualTo ==
    \E y \in OtherMoneys :
        /\ op = "new"
        /\ op' = "is_amount_and_currency_equal_to"
        /\ other' = y
        /\ dec' = NoDecimal
        /\ strategy' = NoStrategy
        /\ out' = OkBool(is_amount_and_currency_equal_to(self, y))
        /\ UNCHANGED self
        /\ UNCHANGED currencyVars

\* The numbers of decimal places passed to round_dp_with_strategy.
RoundDps == 0..MaxAmountScale

\* self.round_dp_with_strategy(dp, s); the call's dp is held as a number.
RoundDpWithStrategy ==
    \E dp \in RoundDps, s \in Strategies :
        /\ op = "new"
        /\ op' = "round_dp_with_strategy"
        /\ other' = NoMoney
        /\ dec' = DecimalNew(dp, 0)
        /\ strategy' = s
        /\ out' = OkMoney(round_dp_with_strategy(self, dp, s))
        /\ UNCHANGED self
        /\ UNCHANGED currencyVars

\* self.rounded(s)
Rounded ==
    \E s \in Strategies :
        /\ op = "new"
        /\ op' = "rounded"
        /\ other' = NoMoney
        /\ dec' = NoDecimal
        /\ strategy' = s
        /\ out' = OkMoney(rounded(self, s))
        /\ UNCHANGED self
        /\ UNCHANGED currencyVars

\* FinMoney::new_with_precision(amount, currency, s), with the amount and
\* the currency of the value held.
NewWithPrecision ==
    \E s \in Strategies :
        /\ op = "new"
        /\ op' = "new_with_precision"
        /\ other' = NoMoney
        /\ dec' = self.amount
        /\ strategy' = s
        /\ out' = OkMoney(new_with_precision(self.amount, self.currency, s))
        /\ UNCHANGED self
        /\ UNCHANGED currencyVars

IsMultipleOfTick ==
    \E t \in Decimals :
        /\ op = "new"
        /\ op' = "is_multiple_of_tick"
        /\ other' = NoMoney
        /\ dec' = t
        /\ strategy' = NoStrategy
        /\ out' = OkBool(is_multiple_of_tick(self, t))
        /\ UNCHANGED self
        /\ UNCHANGED currencyVars

\* self.floor()
Floor ==
    /\ op = "new"
    /\ op' = "floor"
    /\ other' = NoMoney
    /\ dec' = NoDecimal
    /\ strategy' = NoStrategy
    /\ out' = OkMoney(floor(self))
    /\ UNCHANGED self
    /\ UNCHANGED currencyVars

\* self.ceil()
Ceil ==
    /\ op = "new"
    /\ op' = "ceil"
    /\ other' = NoMoney
    /\ dec' = NoDecimal
    /\ strategy' = NoStrategy
    /\ out' = OkMoney(ceil(self))
    /\ UNCHANGED self
    /\ UNCHANGED currencyVars

\* self.trunc()
Trunc ==
    /\ op = "new"
    /\ op' = "trunc"
    /\ other' = NoMoney
    /\ dec' = NoDecimal
    /\ strategy' = NoStrategy
    /\ out' = OkMoney(trunc(self))
    /\ UNCHANGED self
    /\ UNCHANGED currencyVars

\* self.normalize()
Normalize ==
    /\ op = "new"
    /\ op' = "normalize"
    /\ other' = NoMoney
    /\ dec' = NoDecimal
    /\ strategy' = NoStrategy
    /\ out' = OkMoney(normalize(self))
    /\ UNCHANGED self
    /\ UNCHANGED currencyVars

\* self.round_dp(dp); the call's dp is held as a number.
RoundDp ==
    \E dp \in RoundDps :
        /\ op = "new"
        /\ op' = "round_dp"
        /\ other' = NoMoney
        /\ dec' = DecimalNew(dp, 0)
        /\ strategy' = NoStrategy
        /\ out' = OkMoney(round_dp(self, dp))
        /\ UNCHANGED self
        /\ UNCHANGED currencyVars

\* The precisions passed to rescale on the money values.
RescalePrecisions == { 2, 3, MaxPrecision + 1 }

\* self.rescale(p); the call's precision is held as a number.
RescaleMoney ==
    \E p \in RescalePrecisions :
        /\ op = "new"
        /\ op' = "rescale"
        /\ other' = NoMoney
        /\ dec' = DecimalNew(p, 0)
        /\ strategy' = NoStrategy
        /\ out' = rescale(self, p)
        /\ UNCHANGED self
        /\ UNCHANGED currencyVars

\* self += rhs
AddAssign ==
    \E rhs \in OtherMoneys :
        /\ op = "new"
        /\ op' = "add_assign"
        /\ other' = rhs
        /\ dec' = NoDecimal
        /\ strategy' = NoStrategy
        /\ self' = add_assign(self, rhs).self
        /\ out' = add_assign(self, rhs).out
        /\ UNCHANGED currencyVars

\* self -= rhs
SubAssign ==
    \E rhs \in OtherMoneys :
        /\ op = "new"
        /\ op' = "sub_assign"
        /\ other' = rhs
        /\ dec' = NoDecimal
        /\ strategy' = NoStrategy
        /\ self' = sub_assign(self, rhs).self
        /\ out' = sub_assign(self, rhs).out
        /\ UNCHANGED currencyVars

\* The call returned and its result goes out of scope; the value is used
\* again while it is one of the modelled values.
MoneyDrop ==
    /\ ~IsPanic(out)
    /\ self \in Moneys \cup NegativeZeros
    /\ Drop

\* FinMoney::tick_power10_dp(tick): an associated function, no receiver.
TickPower10Dp ==
    \E t \in Decimals :
        /\ op = "new"
        /\ op' = "tick_power10_dp"
        /\ other' = NoMoney
        /\ dec' = t
        /\ strategy' = NoStrategy
        /\ out' = OkOption(tick_power10_dp(t))
        /\ UNCHANGED self
        /\ UNCHANGED currencyVars

Next ==
    \/ New
    \/ Rebind
    \/ MoneyDrop
    \/ PlusMoney
    \/ MinusMoney
    \/ MultipliedByMoney
    \/ DividedByMoney
    \/ PlusDecimal
    \/ MinusDecimal
    \/ MultipliedByDecimal
    \/ DividedByDecimal
    \/ Compare
    \/ CompareTo
    \/ Min
    \/ Max
    \/ IsLessThan
    \/ IsLessThanOrEqual
    \/ IsGreaterThan
    \/ IsGreaterThanOrEqual
    \/ PercentChangeFrom
    \/ NegativePercentChangeFrom
    \/ PercentChange
    \/ NegativePercentChange
    \/ Add
    \/ Sub
    \/ Mul
    \/ ToTick
    \/ ToTickDown
    \/ ToTickUp
    \/ ToTickNearest
    \/ IsMultipleOfTick
    \/ RoundDpWithStrategy
    \/ Rounded
    \/ NewWithPrecision
    \/ IsEqualTo
    \/ IsAmountAndCurrencyEqualTo
    \/ IsZero
    \/ IsPositive
    \/ IsNegative
    \/ IsPositiveOrZero
    \/ IsNegativeOrZero
    \/ AbsOf
    \/ Negated
    \/ TickPower10Dp
    \/ Floor
    \/ Ceil
    \/ Trunc
    \/ Normalize
    \/ RoundDp
    \/ RescaleMoney
    \/ AddAssign
    \/ SubAssign

Spec == Init /\ [][Next]_vars

-----------------------------------------------------------------------------
(* The currency descriptors: a caller builds a descriptor with one of the  *)
(* constructors, the constants or default(), then derives others from the  *)
(* one it holds with with_precision and FinMoney::rescale. A constructor   *)
(* does not read the descriptor held, so it is called from the start.      *)

\* The largest u8.
U8Max == 255

\* The longest run of characters appended to a code or a name.
MaxTail == 2

\* The characters of the strings passed: an ASCII letter, NUL, and one
\* outside ASCII.
Chars == { "A", Nul, "trademark" }

\* The string of n characters ch.
Run(ch, n) == [i \in 1..n |-> ch]

\* The codes passed: a run of "A" up to and beyond the capacity (the empty
\* run included), followed by a short run of any character.
CodeInputs ==
    { Run("A", n) \o Run(ch, k) :
        n \in { 0, 1, 3, CodeCapacity - 1, CodeCapacity },
        ch \in Chars, k \in 0..MaxTail }

\* The names passed: none, or a string built as the codes are.
NameInputs ==
    { <<>> } \cup
    { << Run("A", n) \o Run(ch, k) >> :
        n \in { 0, 1, NameCapacity - 1, NameCapacity },
        ch \in Chars, k \in 0..1 }

Ids == { 1, 7 }

\* The precisions passed: the currencies' own, the limit, the values past it.
Precisions == { 0, 2, MaxPrecision, MaxPrecision + 1, U8Max }

\* The TinyAsciiStr values passed to new_from_tiny.
TinyCodes == { USD.code, INVALID_CODE, <<>>, Run("A", CodeCapacity) }

TinyNames == { <<>>, << <<"U", "S">> >>, << Run("A", NameCapacity) >> }

\* The amounts of the money values rescaled.
RescaleAmounts == { DecimalNew(10567, 3), DecimalNew(-25, 1) }

CurrencyInit ==
    /\ self = NoMoney
    /\ op = "new"
    /\ other = NoMoney
    /\ dec = NoDecimal
    /\ strategy = NoStrategy
    /\ out = OkMoney(NoMoney)
    /\ CurrencyIdle

\* The caller holds the descriptor a constructor returned, or default() when
\* it returned an error.
Held(result) ==
    IF result.tag = "Ok" THEN result.currency ELSE FinMoneyCurrencyDefault

\* let cur = FinMoneyCurrency::new(id, code, name, precision)
CurrencyNew ==
    \E id \in Ids, code \in CodeInputs, name \in NameInputs,
       precision \in Precisions :
        /\ cop = "start"
        /\ cop' = "new"
        /\ carg' = Args(FinMoneyCurrencyDefault, id, code, name, precision,
                        DecimalZERO)
        /\ cres' = FinMoneyCurrencyNew(id, code, name, precision)
        /\ cur' = Held(cres')
        /\ UNCHANGED moneyVars

\* let cur = FinMoneyCurrency::new_from_tiny(id, code, name, precision)
CurrencyNewFromTiny ==
    \E id \in Ids, code \in TinyCodes, name \in TinyNames,
       precision \in Precisions :
        /\ cop = "start"
        /\ cop' = "new_from_tiny"
        /\ carg' = Args(FinMoneyCurrencyDefault, id, code, name, precision,
                        DecimalZERO)
        /\ cres' = new_from_tiny(id, code, name, precision)
        /\ cur' = Held(cres')
        /\ UNCHANGED moneyVars

\* let cur = FinMoneyCurrency::new_sanitized(id, code, name, precision)
CurrencyNewSanitized ==
    \E id \in Ids, code \in CodeInputs, name \in NameInputs,
       precision \in Precisions :
        /\ cop = "start"
        /\ cop' = "new_sanitized"
        /\ carg' = Args(FinMoneyCurrencyDefault, id, code, name, precision,
                        DecimalZERO)
        /\ cres' = OkCurrency(new_sanitized(id, code, name, precision))
        /\ cur' = Held(cres')
        /\ UNCHANGED moneyVars

\* let cur = FinMoneyCurrency::USD (or EUR, BTC, ETH)
CurrencyConstant ==
    \E c \in { USD, EUR, BTC, ETH } :
        /\ cop = "start"
        /\ cop' = "constant"
        /\ carg' = NoArgs
        /\ cres' = OkCurrency(c)
        /\ cur' = c
        /\ UNCHANGED moneyVars

\* let cur = FinMoneyCurrency::default()
CurrencyDefault ==
    /\ cop = "start"
    /\ cop' = "default"
    /\ carg' = NoArgs
    /\ cres' = OkCurrency(FinMoneyCurrencyDefault)
    /\ cur' = FinMoneyCurrencyDefault
    /\ UNCHANGED moneyVars

\* if let Ok(c) = cur.with_precision(precision) { cur = c }
WithPrecision ==
    \E precision \in Precisions :
        /\ cop # "start"
        /\ cop' = "with_precision"
        /\ carg' = Args(cur, cur.id, cur.code, cur.name, precision,
                        DecimalZERO)
        /\ cres' = with_precision(cur, precision)
        /\ cur' = IF cres'.tag = "Ok" THEN cres'.currency ELSE cur
        /\ UNCHANGED moneyVars

\* if let Ok(m) = FinMoney::new(amount, cur).rescale(precision)
\*     { cur = m.get_currency() }
Rescale ==
    \E amount \in RescaleAmounts, precision \in Precisions :
        /\ cop # "start"
        /\ cop' = "rescale"
        /\ carg' = Args(cur, cur.id, cur.code, cur.name, precision, amount)
        /\ cres' = rescale(FinMoneyNew(amount, cur), precision)
        /\ cur' = IF cres'.tag = "Ok" THEN cres'.money.currency ELSE cur
        /\ UNCHANGED moneyVars

\* The caller starts over.
CurrencyRestart ==
    /\ cop # "start"
    /\ cop' = "start"
    /\ carg' = NoArgs
    /\ cres' = OkCurrency(FinMoneyCurrencyDefault)
    /\ cur' = FinMoneyCurrencyDefault
    /\ UNCHANGED moneyVars

CurrencyNext ==
    \/ CurrencyNew
    \/ CurrencyNewFromTiny
    \/ CurrencyNewSanitized
    \/ CurrencyConstant
    \/ CurrencyDefault
    \/ WithPrecision
    \/ Rescale
    \/ CurrencyRestart

CurrencySpec == CurrencyInit /\ [][CurrencyNext]_vars

-----------------------------------------------------------------------------
(* The calls that can abort the caller: the assignments += and -=, sqrt, and *)
(* the additions and subtractions on amounts up to the largest the engine   *)
(* holds.                                                                   *)

AbortAmounts ==
    { DecimalMAX, DecimalNew(-MaxMagnitude, 0), DecimalNew(MaxMagnitude - 1, 0),
      DecimalNew(0, 0), DecimalNew(1, 0), DecimalNew(2, 0), DecimalNew(4, 0),
      DecimalNew(-4, 0), DecimalNew(225, 2), DecimalNew(-25, 2) }

AbortMoneys == { FinMoneyNew(a, c) : a \in AbortAmounts, c \in Currencies }

AbortInit ==
    /\ self \in AbortMoneys
    /\ op = "new"
    /\ other = NoMoney
    /\ dec = NoDecimal
    /\ strategy = NoStrategy
    /\ out = OkMoney(self)
    /\ CurrencyIdle

\* let self = FinMoney::new(amount, currency), after any call that returned.
AbortNew ==
    \E m \in AbortMoneys :
        /\ ~IsPanic(out)
        /\ self' = m
        /\ op' = "new"
        /\ other' = NoMoney
        /\ dec' = NoDecimal
        /\ strategy' = NoStrategy
        /\ out' = OkMoney(m)
        /\ UNCHANGED currencyVars

\* The call returned and its result goes out of scope; the value is used
\* again while it is one of the modelled values.
AbortDrop ==
    /\ ~IsPanic(out)
    /\ self \in AbortMoneys
    /\ Drop

\* self.sqrt()
Sqrt ==
    /\ op = "new"
    /\ op' = "sqrt"
    /\ other' = NoMoney
    /\ dec' = NoDecimal
    /\ strategy' = NoStrategy
    /\ out' \in sqrt(self)
    /\ UNCHANGED self
    /\ UNCHANGED currencyVars

AbortNext ==
    \/ AbortNew
    \/ AbortDrop
    \/ PlusMoney
    \/ MinusMoney
    \/ Add
    \/ Sub
    \/ AddAssign
    \/ SubAssign
    \/ Sqrt

AbortSpec == AbortInit /\ [][AbortNext]_vars

-----------------------------------------------------------------------------
(* The tick calls on the amounts of the money values and on amounts one    *)
(* unit of the engine's last place away from the middle of two multiples   *)
(* of a tick: 1.5 plus and minus that unit, and their negatives.           *)

LastPlaceAmounts ==
    { DecimalNew(sg * (15 * Pow10(MaxScale - 1) + d), MaxScale) :
          sg \in {-1, 1}, d \in {-1, 1} }

TickMoneys ==
    { FinMoneyNew(a, c) : a \in Amounts \cup LastPlaceAmounts,
                          c \in Currencies }

TickInit ==
    /\ self \in TickMoneys
    /\ op = "new"
    /\ other = NoMoney
    /\ dec = NoDecimal
    /\ strategy = NoStrategy
    /\ out = OkMoney(self)
    /\ CurrencyIdle

\* let self = FinMoney::new(amount, currency)
TickNew ==
    \E m \in TickMoneys :
        /\ op = "new"
        /\ self' = m
        /\ op' = "new"
        /\ other' = NoMoney
        /\ dec' = NoDecimal
        /\ strategy' = NoStrategy
        /\ out' = OkMoney(m)
        /\ UNCHANGED currencyVars

TickNext ==
    \/ TickNew
    \/ Rebind
    \/ Drop
    \/ ToTick
    \/ ToTickDown
    \/ ToTickUp
    \/ ToTickNearest
    \/ IsMultipleOfTick
    \/ TickPower10Dp

TickSpec == TickInit /\ [][TickNext]_vars

-----------------------------------------------------------------------------
(* Properties. *)

\* The operations between two FinMoney values that require one currency.
SameCurrencyOps ==
    { "plus_money", "minus_money", "multiplied_by_money", "divided_by_money",
      "compare", "compare_to", "min", "max", "is_less_than",
      "is_less_than_or_equal", "is_greater_than", "is_greater_than_or_equal",
      "percent_change_from", "add", "sub" }

IsCurrencyMismatch(r) == IsErr(r) /\ r.err = "CurrencyMismatch"

\* C1: whenever the two operands' currency ids differ, every operation that
\* requires one currency (plus, minus, multiply, divide, compare, min, max,
\* the four orderings, percent_change_from, + and -) returns
\* Err(CurrencyMismatch) carrying self's code as expected and the other's
\* code as actual, and no numeric result.
C1_CurrencyGating ==
    (op \in SameCurrencyOps /\ self.currency.id # other.currency.id)
        => out = CurrencyMismatch(self.currency.code, other.currency.code)

\* C1 witness: max is called across two currencies that share the code "USD"
\* and differ in id, and returns the mismatch.
C1_Witness ==
    /\ op = "max"
    /\ self.currency.id # other.currency.id
    /\ self.currency.code = other.currency.code
    /\ IsCurrencyMismatch(out)

\* C2: currency identity is the id alone: an operation that requires one
\* currency is rejected with CurrencyMismatch exactly when the ids differ,
\* whatever the codes, names and precisions are.
C2_IdentityIsId ==
    op \in SameCurrencyOps
        => (IsCurrencyMismatch(out) <=> self.currency.id # other.currency.id)

\* C2 witness: two values with one id and different code, name and precision
\* are added without error.
C2_Witness ==
    /\ op = "plus_money"
    /\ self.currency.id = other.currency.id
    /\ self.currency.code # other.currency.code
    /\ self.currency.name # other.currency.name
    /\ self.currency.precision # other.currency.precision
    /\ IsOk(out)

\* C3: divided_by_decimal fails with DivisionByZero exactly when the divisor
\* is zero and is Ok otherwise; divided_by_money fails with CurrencyMismatch
\* whenever the ids differ (also for a zero divisor), with DivisionByZero
\* exactly when the ids match and the divisor amount is zero, and is Ok
\* otherwise.
C3_DivisionErrors ==
    /\ op = "divided_by_decimal"
           => IF SignedMant(dec) = 0 THEN out = DivisionByZero ELSE IsOk(out)
    /\ op = "divided_by_money"
           => IF self.currency.id # other.currency.id
              THEN IsCurrencyMismatch(out)
              ELSE IF SignedMant(other.amount) = 0
                   THEN out = DivisionByZero
                   ELSE IsOk(out)

\* C3 witness: a value is divided by a zero amount of another currency and
\* the mismatch, not the division by zero, is reported.
C3_Witness ==
    /\ op = "divided_by_money"
    /\ self.currency.id # other.currency.id
    /\ SignedMant(other.amount) = 0
    /\ IsCurrencyMismatch(out)

-----------------------------------------------------------------------------
(* Reference arithmetic on exact fractions, used to state the properties.  *)

\* The fraction n / d (d > 0) rounded to an integer under a strategy,
\* computed from the floor and the remainder.
ExactRoundInt(n, d, mode) ==
    LET f == n \div d
        r == n % d
    IN  IF r = 0 THEN f
        ELSE CASE mode = "ToNegativeInfinity" -> f
               [] mode = "ToPositiveInfinity" -> f + 1
               [] mode = "ToZero"             -> IF n > 0 THEN f ELSE f + 1
               [] mode = "AwayFromZero"       -> IF n > 0 THEN f + 1 ELSE f
               [] OTHER ->
                    IF 2 * r < d THEN f
                    ELSE IF 2 * r > d THEN f + 1
                    ELSE CASE mode = "MidpointNearestEven" ->
                                  IF f % 2 = 0 THEN f ELSE f + 1
                           [] mode = "MidpointAwayFromZero" ->
                                  IF n > 0 THEN f + 1 ELSE f
                           [] mode = "MidpointTowardZero" ->
                                  IF n > 0 THEN f ELSE f + 1

\* The exact quotient x / y (y # 0) rounded to dp decimal places under a
\* strategy.
ExactQuotientRounded(x, y, dp, mode) ==
    LET sg == IF y.neg THEN -1 ELSE 1
        k  == y.e + dp - x.e
        n  == sg * SignedMant(x) * Pow10(k)
        d  == y.m * Pow10(-k)
    IN  DecimalNew(ExactRoundInt(n, d, mode), dp)

\* The remainder left after n more digits of a long division by den.
RECURSIVE RemainderAfter(_, _, _)
RemainderAfter(r, den, n) ==
    IF r = 0 \/ n <= 0 THEN r ELSE RemainderAfter((10 * r) % den, den, n - 1)

\* The exact quotient x / y (y # 0) has at most MaxScale decimal places.
QuotientIsExact(x, y) ==
    LET num == x.m * Pow10(MaxOf(y.e - x.e, 0))
        s0  == MaxOf(x.e - y.e, 0)
    IN  RemainderAfter(num % y.m, y.m, MaxScale - s0) = 0

\* x rounded to dp decimal places under a strategy.
ExactRounded(x, dp, mode) ==
    ExactQuotientRounded(x, DecimalNew(1, 0), dp, mode)

DivisionOps == { "divided_by_money", "divided_by_decimal" }

\* The divisor of the division in the state.
Divisor == IF op = "divided_by_money" THEN other.amount ELSE dec

\* C4 as claimed: the result of a division by a divisor that is not zero has
\* an amount equal to the exact quotient rounded to the dividend's currency
\* precision under the strategy, a scale of at most that precision, and the
\* dividend's currency.
C4_ExactQuotientRounded ==
    (op \in DivisionOps /\ IsOk(out))
        => /\ DecEq(out.money.amount,
                    ExactQuotientRounded(self.amount, Divisor,
                                         self.currency.precision, strategy))
           /\ out.money.amount.e <= self.currency.precision
           /\ out.money.currency = self.currency

\* C4 as amended: the amount is the engine's quotient (the exact quotient
\* rounded half to even at the engine's maximum scale when it has more
\* decimal places) rounded to the dividend's currency
\* precision under the strategy; it is the exact quotient rounded under the
\* strategy whenever the exact quotient fits the engine's maximum scale; its
\* scale is at most the dividend's precision and it carries the dividend's
\* currency.
C4_EngineQuotientRounded ==
    (op \in DivisionOps /\ IsOk(out))
        => /\ out.money.amount =
                  DecRoundDpWithStrategy(DecDiv(self.amount, Divisor),
                                         self.currency.precision, strategy)
           /\ QuotientIsExact(self.amount, Divisor)
                  => DecEq(out.money.amount,
                           ExactQuotientRounded(self.amount, Divisor,
                                                self.currency.precision,
                                                strategy))
           /\ out.money.amount.e <= self.currency.precision
           /\ out.money.currency = self.currency

\* C4 witness: a value is divided by a money value of the same currency whose
\* descriptor has another precision, the quotient is cut to the dividend's
\* precision and a directed strategy moves it away from the nearest value.
C4_Witness ==
    /\ op = "divided_by_money"
    /\ IsOk(out)
    /\ other.currency.precision # self.currency.precision
    /\ strategy = "ToPositiveInfinity"
    /\ DecDiv(self.amount, other.amount).e > self.currency.precision
    /\ ~DecEq(out.money.amount,
              DecRoundDp(DecDiv(self.amount, other.amount),
                         self.currency.precision))

-----------------------------------------------------------------------------
(* Addition, subtraction and multiplication. *)

SumOps == { "plus_money", "plus_decimal", "add" }

DifferenceOps == { "minus_money", "minus_decimal", "sub" }

ProductOps == { "multiplied_by_money", "multiplied_by_decimal", "mul" }

\* The second operand's amount of the arithmetic call in the state.
Operand ==
    IF op \in { "plus_decimal", "minus_decimal", "multiplied_by_decimal", "mul" }
    THEN dec ELSE other.amount

\* r is the exact value of a + sgn * b.
IsExactSum(r, a, b, sgn) ==
    LET e == MaxOf(MaxOf(a.e, b.e), r.e)
    IN  AtScale(r, e) = AtScale(a, e) + sgn * AtScale(b, e)

\* r is the exact value of a * b.
IsExactProduct(r, a, b) ==
    LET s == a.e + b.e
        p == SignedMant(a) * SignedMant(b)
    IN  IF r.m = 0 THEN p = 0
        ELSE IF r.e >= s THEN SignedMant(r) = p * Pow10(r.e - s)
        ELSE SignedMant(r) * Pow10(s - r.e) = p

\* The exact product a * b rounded half to even at MaxScale decimal places.
ExactProductRounded(a, b) ==
    DecimalNew(ExactRoundInt(SignedMant(a) * SignedMant(b),
                             Pow10(a.e + b.e - MaxScale),
                             "MidpointNearestEven"),
               MaxScale)

\* C5 as claimed: addition, subtraction and multiplication, against money or
\* a decimal, never round: the result amount is the exact sum, difference or
\* product of the operand amounts, whatever the currency's precision is.
C5_NeverRounds ==
    (op \in SumOps \cup DifferenceOps \cup ProductOps /\ IsOk(out))
        => /\ out.money.currency = self.currency
           /\ op \in SumOps
                  => IsExactSum(out.money.amount, self.amount, Operand, 1)
           /\ op \in DifferenceOps
                  => IsExactSum(out.money.amount, self.amount, Operand, -1)
           /\ op \in ProductOps
                  => IsExactProduct(out.money.amount, self.amount, Operand)

\* C5 as amended: a sum or a difference is exact; a product is exact whenever
\* the scales of its factors add up to at most the engine's maximum scale,
\* also when it has more decimal places than the currency's precision, and
\* is otherwise the exact product rounded half to even at the engine's
\* maximum scale; the result carries self's currency.
C5_ExactWithinEngineScale ==
    (op \in SumOps \cup DifferenceOps \cup ProductOps /\ IsOk(out))
        => /\ out.money.currency = self.currency
           /\ op \in SumOps
                  => IsExactSum(out.money.amount, self.amount, Operand, 1)
           /\ op \in DifferenceOps
                  => IsExactSum(out.money.amount, self.amount, Operand, -1)
           /\ op \in ProductOps
                  => IF self.amount.e + Operand.e <= MaxScale
                     THEN IsExactProduct(out.money.amount, self.amount,
                                         Operand)
                     ELSE DecEq(out.money.amount,
                                ExactProductRounded(self.amount, Operand))

\* C5 witness: a product by a decimal has more decimal places than the
\* currency's precision, is exact, and differs from its value rounded to
\* that precision.
C5_Witness ==
    /\ op = "multiplied_by_decimal"
    /\ out.money.amount.e > self.currency.precision
    /\ IsExactProduct(out.money.amount, self.amount, dec)
    /\ ~DecEq(out.money.amount,
              DecRoundDp(out.money.amount, self.currency.precision))

-----------------------------------------------------------------------------
(* Tick operations. *)

TickOps == { "to_tick", "to_tick_down", "to_tick_up", "to_tick_nearest" }

\* The strategy of the tick call in the state.
TickStrategy ==
    CASE op = "to_tick_down"    -> "ToNegativeInfinity"
      [] op = "to_tick_up"      -> "ToPositiveInfinity"
      [] op = "to_tick_nearest" -> "MidpointNearestEven"
      [] OTHER                  -> strategy

\* C6: to_tick, to_tick_down, to_tick_up and to_tick_nearest return
\* Err(InvalidTick) for every tick that is zero or negative, whatever the
\* amount and the strategy are, and Ok for every positive tick.
C6_InvalidTick ==
    op \in TickOps
        => IF SignedMant(dec) <= 0 THEN out = InvalidTick ELSE IsOk(out)

\* C6 witness: to_tick_down is called with a negative tick and fails with
\* InvalidTick.
C6_Witness ==
    /\ op = "to_tick_down"
    /\ SignedMant(dec) < 0
    /\ out = InvalidTick

\* C7: tick idempotence: for every amount x and every positive tick t,
\* x.to_tick_nearest(t).to_tick_nearest(t) == x.to_tick_nearest(t).
C7_TickIdempotence ==
    (op = "to_tick_nearest" /\ IsOk(out))
        => LET again == to_tick_nearest(out.money, dec)
           IN  IsOk(again) /\ MoneyEq(again.money, out.money)

\* C7 witness: to_tick_nearest with a tick that is not a power of ten has
\* moved the amount to another value.
C7_Witness ==
    /\ op = "to_tick_nearest"
    /\ IsOk(out)
    /\ tick_power10_dp(dec) = <<>>
    /\ ~DecEq(out.money.amount, self.amount)
    /\ ~DecIsZero(out.money.amount)

\* C8: fast/general path equivalence: for every tick numerically equal to
\* 10^-d (d >= 0), written with coefficient 1 or with trailing zeros such as
\* 1.0, 0.10 and 0.010, every amount and every strategy, to_tick returns the
\* amount rounded to d decimal places under the strategy, in self's currency.
C8_PowerOfTenTick ==
    \A d \in 0..MaxScale :
        (op = "to_tick" /\ ~dec.neg /\ d <= dec.e /\ dec.m = Pow10(dec.e - d))
            => /\ IsOk(out)
               /\ DecEq(out.money.amount,
                        ExactRounded(self.amount, d, strategy))
               /\ out.money.currency = self.currency

\* C8 witness: to_tick with the tick 0.010, which is 10^-2 written with a
\* trailing zero and takes the general path, has rounded the amount away
\* from zero to another value.
C8_Witness ==
    /\ op = "to_tick"
    /\ dec = DecimalNew(10, 3)
    /\ tick_power10_dp(dec) = <<>>
    /\ strategy = "AwayFromZero"
    /\ IsOk(out)
    /\ ~DecEq(out.money.amount, self.amount)

\* C9: membership consistency: for every amount x and every positive tick
\* t, x.is_multiple_of_tick(t) is true iff x.to_tick_nearest(t) == x.
C9_MembershipConsistency ==
    (op = "is_multiple_of_tick" /\ SignedMant(dec) > 0)
        => LET nearest == to_tick_nearest(self, dec)
           IN  out.bool <=> (IsOk(nearest) /\ MoneyEq(nearest.money, self))

\* The exact quotient x / t rounded to an integer under a strategy, times t.
ExactTick(x, t, mode) ==
    LET n == ExactQuotientRounded(x, t, 0, mode)
    IN  DecimalNew(SignedMant(n) * SignedMant(t), t.e)

C11_ZeroTickZeroAmount ==
    op = "is_multiple_of_tick"
        => /\ SignedMant(dec) = 0 => out.bool = FALSE
           /\ (SignedMant(self.amount) = 0 /\ SignedMant(dec) > 0)
                  => out.bool = TRUE

\* C11 witness: the zero amount is tested against the zero tick and is not
\* reported as a multiple.
C11_Witness ==
    /\ op = "is_multiple_of_tick"
    /\ SignedMant(self.amount) = 0
    /\ SignedMant(dec) = 0
    /\ out.bool = FALSE

-----------------------------------------------------------------------------
(* Currency descriptors. *)

\* The descriptor an Ok result carries.
ResultCurrency(r) == IF r.ty = "money" THEN r.money.currency ELSE r.currency

IsInvalidPrecision(r) == r.tag = "Err" /\ r.err = "InvalidPrecision"

\* The calls that check the precision they are given.
PrecisionCheckedOps == { "new", "new_from_tiny", "with_precision", "rescale" }

\* C12: every descriptor reached through new, new_from_tiny, new_sanitized,
\* with_precision, the constants, default and FinMoney::rescale has a
\* precision of at most 28; new, new_from_tiny, with_precision and rescale
\* return Err(InvalidPrecision(p)) with the precision passed exactly when it
\* is above 28, and with_precision otherwise returns a copy with the same id,
\* code and name and the precision passed.
C12_PrecisionBound ==
    /\ cur.precision <= MaxPrecision
    /\ cres.tag = "Ok" => ResultCurrency(cres).precision <= MaxPrecision
    /\ cop \in PrecisionCheckedOps
           => IF carg.precision > MaxPrecision
              THEN cres = InvalidPrecision(carg.precision)
              ELSE ~IsInvalidPrecision(cres)
    /\ (cop = "with_precision" /\ carg.precision <= MaxPrecision)
           => /\ cres.tag = "Ok"
              /\ cres.currency.id = carg.self.id
              /\ cres.currency.code = carg.self.code
              /\ cres.currency.name = carg.self.name
              /\ cres.currency.precision = carg.precision

\* C12 witness: a descriptor already at precision 28 is asked for the
\* largest precision a u8 holds; the call fails with that value and the
\* descriptor held stays at 28.
C12_Witness ==
    /\ cop = "with_precision"
    /\ carg.self.precision = MaxPrecision
    /\ carg.precision = U8Max
    /\ cres = InvalidPrecision(U8Max)
    /\ cur.precision = MaxPrecision

\* Every character of the string is ASCII.
IsAsciiStr(str) == \A i \in 1..Len(str) : is_ascii(str[i])

\* C13: new_sanitized returns a descriptor for every code, name and
\* precision 0..255: its code has at most 16 bytes, its name if present at
\* most 52 bytes, both are ASCII, the id is the one given and the precision
\* is min(precision, 28).
C13_SanitizedTotal ==
    cop = "new_sanitized"
        => /\ cres.tag = "Ok"
           /\ StrLen(cres.currency.code) <= CodeCapacity
           /\ IsAsciiStr(cres.currency.code)
           /\ cres.currency.name # <<>>
                  => /\ StrLen(cres.currency.name[1]) <= NameCapacity
                     /\ IsAsciiStr(cres.currency.name[1])
           /\ cres.currency.id = carg.id
           /\ cres.currency.precision =
                  (IF carg.precision < MaxPrecision THEN carg.precision
                   ELSE MaxPrecision)

\* C13 witness: new_sanitized is given a code of more than 16 characters
\* that ends outside ASCII, a name of more than 52 characters and the
\* precision 255, and returns a descriptor of precision 28 with a name.
C13_Witness ==
    /\ cop = "new_sanitized"
    /\ Len(carg.code) > CodeCapacity
    /\ ~IsAsciiStr(carg.code)
    /\ carg.name # <<>>
    /\ Len(carg.name[1]) > NameCapacity
    /\ carg.precision = U8Max
    /\ cres.currency.precision = MaxPrecision
    /\ cres.currency.name # <<>>

\* C14: every descriptor produced by new or new_sanitized has a code that is
\* not empty, ASCII only and at most 16 bytes long, for every code passed,
\* the empty string included.
C14_CodeNonEmptyAscii ==
    (cop \in { "new", "new_sanitized" } /\ cres.tag = "Ok")
        => /\ cres.currency.code # <<>>
           /\ IsAsciiStr(cres.currency.code)
           /\ StrLen(cres.currency.code) <= CodeCapacity

\* A NUL among the first capacity characters: the string parses neither as
\* it is nor after it is sanitized and truncated.
StillUnparsable(str, capacity) ==
    \E i \in 1..Len(str) : i <= capacity /\ str[i] = Nul

\* The code stored is the code passed, cut to 16 characters, with "_" in
\* place of every character outside ASCII.
IsSanitizedForm(stored, raw, capacity) ==
    /\ Len(stored) = (IF Len(raw) < capacity THEN Len(raw) ELSE capacity)
    /\ \A i \in 1..Len(stored) :
           stored[i] = (IF raw[i] \in NonAsciiChars THEN "_" ELSE raw[i])

\* C15 as claimed: with a precision of at most 28, new fails with
\* InvalidCurrencyCode(code as passed) exactly when the code still cannot be
\* parsed after sanitization, and with InvalidCurrencyName(name as passed)
\* exactly when a name is supplied and still cannot be parsed after
\* sanitization; a code of more than 16 characters or with characters
\* outside ASCII is accepted and stored in its sanitized form.
C15_CodeAndNameErrors ==
    (cop = "new" /\ carg.precision <= MaxPrecision)
        => /\ cres = InvalidCurrencyCode(carg.code)
                  <=> StillUnparsable(carg.code, CodeCapacity)
           /\ (carg.name # <<>> /\ cres = InvalidCurrencyName(carg.name[1]))
                  <=> (carg.name # <<>>
                          /\ StillUnparsable(carg.name[1], NameCapacity))
           /\ cres.tag = "Ok"
                  => IsSanitizedForm(cres.currency.code, carg.code,
                                     CodeCapacity)

\* C15 as amended: the name is checked before the code, so new fails with
\* InvalidCurrencyName(name as passed) exactly when a name is supplied and
\* still cannot be parsed after sanitization, and with
\* InvalidCurrencyCode(code as passed) exactly when the code still cannot be
\* parsed after sanitization and no such name is supplied; otherwise it is
\* Ok and stores the code in its sanitized form.
C15_NameCheckedFirst ==
    (cop = "new" /\ carg.precision <= MaxPrecision)
        => LET bad_name == carg.name # <<>>
                              /\ StillUnparsable(carg.name[1], NameCapacity)
               bad_code == StillUnparsable(carg.code, CodeCapacity)
           IN  /\ bad_name => cres = InvalidCurrencyName(carg.name[1])
               /\ (~bad_name /\ bad_code)
                      => cres = InvalidCurrencyCode(carg.code)
               /\ (~bad_name /\ ~bad_code)
                      => /\ cres.tag = "Ok"
                         /\ IsSanitizedForm(cres.currency.code, carg.code,
                                            CodeCapacity)
                         /\ cres.currency.id = carg.id
                         /\ cres.currency.precision = carg.precision

\* C15 witness: new is given a code of more than 16 characters that ends
\* outside ASCII and returns a descriptor whose code is the first 16
\* characters.
C15_Witness ==
    /\ cop = "new"
    /\ Len(carg.code) > CodeCapacity
    /\ ~IsAsciiStr(carg.code)
    /\ cres.tag = "Ok"
    /\ Len(cres.currency.code) = CodeCapacity

-----------------------------------------------------------------------------
(* Percentage change. *)

PercentOps ==
    { "percent_change_from", "negative_percent_change_from",
      "percent_change", "negative_percent_change" }

NegativePercentOps == { "negative_percent_change_from", "negative_percent_change" }

RECURSIVE GCD(_, _)
GCD(a, b) == IF b = 0 THEN a ELSE GCD(b, a % b)

\* The fraction n / d (d # 0) in lowest terms with a positive denominator.
Reduced(n, d) ==
    LET g == GCD(Abs(n), Abs(d))
    IN  [n |-> (IF d < 0 THEN -n ELSE n) \div g, d |-> Abs(d) \div g]

\* A Decimal as a fraction in lowest terms.
DecAsFraction(v) == Reduced(SignedMant(v), Pow10(v.e))

\* (x - initial) * 100 / initial over the rationals, in lowest terms.
ExactPercentChange(x, initial) ==
    LET s  == MaxOf(x.e, initial.e)
        xi == SignedMant(x) * Pow10(s - x.e)
        ii == SignedMant(initial) * Pow10(s - initial.e)
        f  == Reduced(xi - ii, ii)
        g  == GCD(100, f.d)
    IN  [n |-> f.n * (100 \div g), d |-> f.d \div g]

\* The fraction has at most MaxScale decimal places.
Terminates(f) == Pow10(MaxScale) % f.d = 0

\* C16: with matching currencies, percent_change_from(initial) is
\* (x - initial) * 100 / initial and negative_percent_change_from(initial) is
\* exactly its negation; both return DivisionByZero when initial is zero;
\* the static percent_change(initial, new) is new.percent_change_from(initial),
\* and 100 -> 110 gives 10.
C16_PercentChange ==
    /\ LET r == percent_change(FinMoneyNew(DecimalNew(100, 0), USD),
                               FinMoneyNew(DecimalNew(110, 0), USD))
       IN  r.tag = "Ok" /\ DecEq(r.dec, DecimalNew(10, 0))
    /\ (op \in PercentOps /\ self.currency.id = other.currency.id)
           => IF DecIsZero(other.amount) THEN out = DivisionByZero
              ELSE /\ out.tag = "Ok"
                   /\ LET f  == ExactPercentChange(self.amount, other.amount)
                          sg == IF op \in NegativePercentOps THEN -1 ELSE 1
                      IN  IF Terminates(f)
                          THEN DecAsFraction(out.dec) = [n |-> sg * f.n, d |-> f.d]
                          ELSE /\ out.dec.e = MaxScale
                               /\ out.dec.neg = (sg * f.n < 0)
                               /\ out.dec.m \div Pow10(MaxScale)
                                      \in { Abs(f.n) \div f.d,
                                            Abs(f.n) \div f.d + 1 }
    /\ (op = "negative_percent_change_from" /\ IsOk(out))
           => DecEq(out.dec,
                    DecSub(DecimalZERO, percent_change_from(self, other).dec))
    /\ op = "percent_change" => out = percent_change_from(self, other)
    /\ op = "negative_percent_change"
           => out = negative_percent_change_from(self, other)

\* C16 witness: the value fell from an initial value by which the
\* difference does not divide, and negative_percent_change_from returns a
\* positive percentage at the engine's last decimal place.
C16_Witness ==
    /\ op = "negative_percent_change_from"
    /\ other.amount = RepeatingInitialAmount
    /\ DecLt(self.amount, other.amount)
    /\ IsOk(out)
    /\ out.dec.e = MaxScale
    /\ ~out.dec.neg

-----------------------------------------------------------------------------
(* Aborts. *)

AssignOps == { "add_assign", "sub_assign" }

\* The call in the state is one the design lets abort: an assignment across
\* two currencies, or sqrt of a negative amount.
DocumentedAbort ==
    \/ op \in AssignOps /\ self.currency.id # other.currency.id
    \/ op = "sqrt" /\ DecLt(self.amount, DecimalZERO)

\* C17: the only calls that abort the caller are += and -= on a currency
\* mismatch and sqrt of a negative amount; every other call, on every input,
\* returns a value or an Err.
C17_OnlyDocumentedAborts == IsPanic(out) <=> DocumentedAbort

\* With matching currencies a += b leaves a equal to a.plus_money(b) and
\* a -= b equal to a.minus_money(b), whenever the call returns.
AssignIsArithmetic ==
    [][ /\ (op' = "add_assign" /\ op = "new" /\ IsOk(out'))
            => OkMoney(self') = plus_money(self, other')
        /\ (op' = "sub_assign" /\ op = "new" /\ IsOk(out'))
            => OkMoney(self') = minus_money(self, other') ]_vars

\* C18: no call panics: every public operation reports currency mismatch and
\* the other failures through its Result, for every input.
C18_PanicFree == ~IsPanic(out)

-----------------------------------------------------------------------------
(* Rounding strategies. *)

RoundingOps == { "round_dp_with_strategy", "rounded", "new_with_precision" }

\* The number of decimal places the call in the state rounds to.
TargetDp ==
    IF op = "round_dp_with_strategy" THEN dec.m ELSE self.currency.precision

\* The rounding of the integer x to a multiple of the positive integer unit
\* as the table of strategies describes it: lower and upper are the
\* neighbours of x among the multiples.
TableRounding(x, unit, s) ==
    LET lower   == (x \div unit) * unit
        upper   == lower + unit
        toward  == IF x > 0 THEN lower ELSE upper
        away    == IF x > 0 THEN upper ELSE lower
        nearest(tie) ==
            IF 2 * (x - lower) < unit THEN lower
            ELSE IF 2 * (x - lower) > unit THEN upper
            ELSE tie
    IN  IF x = lower THEN x
        ELSE CASE s = "MidpointNearestEven" ->
                      nearest(IF (lower \div unit) % 2 = 0 THEN lower ELSE upper)
               [] s = "MidpointAwayFromZero" -> nearest(away)
               [] s = "MidpointTowardZero"   -> nearest(toward)
               [] s = "ToZero"               -> toward
               [] s = "AwayFromZero"         -> away
               [] s = "ToNegativeInfinity"   -> lower
               [] s = "ToPositiveInfinity"   -> upper

\* C19: round_dp_with_strategy, rounded and new_with_precision round positive
\* and negative amounts as the table says: on a value halfway between two
\* neighbours at the target scale MidpointNearestEven picks the neighbour
\* with an even last digit, MidpointAwayFromZero the larger magnitude,
\* MidpointTowardZero the smaller magnitude, and all three the nearest
\* neighbour otherwise; ToZero truncates, AwayFromZero increases the
\* magnitude of an inexact value, ToNegativeInfinity rounds down and
\* ToPositiveInfinity rounds up; each of the 7 variants maps to the
\* engine's mode of the same name.
C19_RoundingTable ==
    /\ \A s \in Strategies : to_decimal_strategy(s) = s
    /\ op \in RoundingOps
           => LET x  == self.amount
                  v  == out.money.amount
                  sc == MaxOf(x.e, TargetDp)
              IN  /\ IsOk(out)
                  /\ out.money.currency = self.currency
                  /\ v.e <= sc
                  /\ SignedMant(v) * Pow10(sc - v.e)
                         = TableRounding(SignedMant(x) * Pow10(sc - x.e),
                                         Pow10(sc - TargetDp), strategy)

\* C19 witness: a negative amount halfway between two neighbours is rounded
\* to 2 places with MidpointNearestEven and goes to the even neighbour of
\* smaller magnitude.
C19_Witness ==
    /\ op = "round_dp_with_strategy"
    /\ self.amount = DecimalNew(-10625, 3)
    /\ dec = DecimalNew(2, 0)
    /\ strategy = "MidpointNearestEven"
    /\ out.money.amount = DecimalNew(-1062, 2)

-----------------------------------------------------------------------------
(* Equality. *)

EqualityOps == { "is_equal_to", "is_amount_and_currency_equal_to" }

\* The two amounts are the same number, whatever their scales.
SameNumber(x, y) ==
    IF x.e >= y.e THEN SignedMant(x) = SignedMant(y) * Pow10(x.e - y.e)
    ELSE SignedMant(y) = SignedMant(x) * Pow10(y.e - x.e)

\* C20: is_equal_to and is_amount_and_currency_equal_to are true iff the two
\* values have the same currency id and numerically equal amounts, whatever
\* the amounts' scales and the descriptors' code, name and precision; for
\* different ids they return false, not an error.
C20_EqualityByIdAndNumber ==
    op \in EqualityOps
        => out = OkBool(self.currency.id = other.currency.id
                            /\ SameNumber(self.amount, other.amount))

\* C20 witness: two values of one id whose descriptors differ in code, name
\* and precision and whose amounts differ in scale are reported equal.
C20_Witness ==
    /\ op = "is_equal_to"
    /\ self.currency.id = other.currency.id
    /\ self.currency.code # other.currency.code
    /\ self.currency.name # other.currency.name
    /\ self.currency.precision # other.currency.precision
    /\ self.amount.e # other.amount.e
    /\ self.amount.m # 0
    /\ out = OkBool(TRUE)

-----------------------------------------------------------------------------
(* Sign predicates. *)

SignOps ==
    { "is_zero", "is_positive", "is_negative", "is_positive_or_zero",
      "is_negative_or_zero" }

\* What the predicate called in the state says of a number n.
SignOfNumber(n) ==
    CASE op = "is_zero"             -> n = 0
      [] op = "is_positive"         -> n > 0
      [] op = "is_negative"         -> n < 0
      [] op = "is_positive_or_zero" -> n >= 0
      [] op = "is_negative_or_zero" -> n <= 0

\* C21: the sign predicates agree with the numeric value for every amount:
\* is_positive iff amount > 0, is_negative iff amount < 0,
\* is_positive_or_zero iff amount >= 0, is_negative_or_zero iff amount <= 0;
\* every zero amount, also one obtained as zero.negated() or by rounding a
\* small negative amount to zero, satisfies is_zero, is_positive_or_zero and
\* is_negative_or_zero and neither is_positive nor is_negative.
C21_SignByValue ==
    op \in SignOps => out = OkBool(SignOfNumber(SignedMant(self.amount)))

-----------------------------------------------------------------------------
(* Sanitization. *)

SanitizingOps == { "new", "new_sanitized" }

\* The string parses as it is: ASCII, no NUL, within the bound.
ParsesAsIs(str, capacity) ==
    /\ Len(str) <= capacity
    /\ \A i \in 1..Len(str) : str[i] # Nul /\ str[i] \notin NonAsciiChars

\* The string stored for raw under the rule: raw itself when it parses as it
\* is, otherwise its first capacity characters with "_" for each character
\* outside ASCII.
StoredByRule(stored, raw, capacity) ==
    IF ParsesAsIs(raw, capacity) THEN stored = raw
    ELSE IsSanitizedForm(stored, raw, capacity)

\* "US Dollar(TM)", the name of the crate's test.
USDollarTM == <<"U", "S", " ", "D", "o", "l", "l", "a", "r", "trademark">>

\* C22: a code (bound 16) or name (bound 52) that parses as it is (ASCII, no
\* NUL, within the bound) is stored unchanged; only when that parse fails is
\* each character outside ASCII replaced by "_" and the string cut to its
\* first 16 (52) characters before it is parsed again, so an ASCII string
\* that is only too long is stored as its prefix and "US Dollar(TM)" becomes
\* "US Dollar_".
C22_SanitizationRule ==
    /\ sanitize_and_parse_name(USDollarTM)
           = << <<"U", "S", " ", "D", "o", "l", "l", "a", "r", "_">> >>
    /\ (cop \in SanitizingOps /\ cres.tag = "Ok")
           => /\ ~StillUnparsable(carg.code, CodeCapacity)
                     => StoredByRule(cres.currency.code, carg.code,
                                     CodeCapacity)
              /\ carg.name = <<>> => cres.currency.name = <<>>
              /\ (carg.name # <<>>
                     /\ ~StillUnparsable(carg.name[1], NameCapacity))
                     => /\ cres.currency.name # <<>>
                        /\ StoredByRule(cres.currency.name[1], carg.name[1],
                                        NameCapacity)

\* C22 witness: new_sanitized is given an ASCII code that is only too long
\* and a name that ends outside ASCII; the code stored is the prefix of 16
\* characters and the name stored ends in "_".
C22_Witness ==
    /\ cop = "new_sanitized"
    /\ Len(carg.code) > CodeCapacity
    /\ IsAsciiStr(carg.code)
    /\ cres.currency.code = SubSeq(carg.code, 1, CodeCapacity)
    /\ carg.name # <<>>
    /\ Len(carg.name[1]) \in 2..NameCapacity
    /\ carg.name[1][Len(carg.name[1])] = "trademark"
    /\ cres.currency.name # <<>>
    /\ cres.currency.name[1][Len(carg.name[1])] = "_"

\* C23: when the code still cannot be parsed after sanitization (a NUL among
\* its first 16 characters) new_sanitized returns a descriptor with the
\* reserved code "INVALID", and when a supplied name still cannot be parsed
\* after sanitization the descriptor has no name; the id and the clamped
\* precision are kept as given in both cases.
C23_SanitizedFallback ==
    cop = "new_sanitized"
        => LET bad_code == StillUnparsable(carg.code, CodeCapacity)
               bad_name == carg.name # <<>>
                              /\ StillUnparsable(carg.name[1], NameCapacity)
           IN  /\ cres.tag = "Ok"
               /\ bad_code
                      => cres.currency.code = <<"I", "N", "V", "A", "L", "I", "D">>
               /\ bad_name => cres.currency.name = <<>>
               /\ (bad_code \/ bad_name)
                      => /\ cres.currency.id = carg.id
                         /\ cres.currency.precision =
                                (IF carg.precision < MaxPrecision
                                 THEN carg.precision ELSE MaxPrecision)

\* C23 witness: new_sanitized is given a code and a name that both hold a
\* NUL and a precision above 28, and returns the descriptor "INVALID" with
\* no name, the id passed and precision 28.
C23_Witness ==
    /\ cop = "new_sanitized"
    /\ StillUnparsable(carg.code, CodeCapacity)
    /\ carg.name # <<>>
    /\ StillUnparsable(carg.name[1], NameCapacity)
    /\ carg.precision > MaxPrecision
    /\ cres.currency = FinMoneyCurrency(carg.id, <<>>, INVALID_CODE, MaxPrecision)

\* C24: tick_power10_dp(tick) returns Some(d) exactly when the tick is
\* positive and stored with coefficient 1 at its own scale d, and None for
\* every other tick: other coefficients, 10 and 100, negative ticks, zero,
\* and powers of ten written with trailing zeros such as 1.0 and 0.10.
C24_CoefficientOne ==
    op = "tick_power10_dp"
        => out = OkOption(IF ~dec.neg /\ dec.m = 1 THEN <<dec.e>> ELSE <<>>)

\* C24 witness: tick_power10_dp has returned Some(3) for the tick 0.001.
C24_Witness ==
    /\ op = "tick_power10_dp"
    /\ dec = DecimalNew(1, 3)
    /\ out = OkOption(<<3>>)

\* C25: rescale(p) with p <= 28 returns a value whose currency has the id,
\* code and name of the original and precision p, and whose amount is the
\* original amount rounded to p places with banker's rounding, the original
\* amount itself when it has at most p decimal places; with p > 28 it
\* returns Err(InvalidPrecision(p)). The receiver the caller passed is the
\* one recorded before the call.
C25_Rescale ==
    cop = "rescale"
        => IF carg.precision <= MaxPrecision
           THEN /\ cres.tag = "Ok"
                /\ cres.money.currency =
                       FinMoneyCurrency(carg.self.id, carg.self.name,
                                        carg.self.code, carg.precision)
                /\ IF carg.amount.e <= carg.precision
                   THEN cres.money.amount = carg.amount
                   ELSE cres.money.amount =
                            ExactRounded(carg.amount, carg.precision,
                                         "MidpointNearestEven")
           ELSE cres = InvalidPrecision(carg.precision)

\* C25 witness: -2.5 in a currency of another precision has been rescaled to
\* 0 places and the tie has gone to the even neighbour -2.
C25_Witness ==
    /\ cop = "rescale"
    /\ carg.amount = DecimalNew(-25, 1)
    /\ carg.precision = 0
    /\ carg.self.precision # 0
    /\ cres.tag = "Ok"
    /\ cres.money.amount = DecimalNew(-2, 0)
    /\ cres.money.currency.precision = 0

\* C26: for two values a and b of the same currency, a.min(b) is the
\* operand with the smaller amount and a.max(b) the one with the larger; the
\* result is always one of the two operands, amount and descriptor; a is
\* returned by both when the amounts are equal; and the amount of the
\* minimum is at most the amount of the maximum.
C26_MinMax ==
    (op \in {"min", "max"} /\ is_same_currency(self.currency, other.currency))
        => /\ IsOk(out)
           /\ out.money \in {self, other}
           /\ op = "min" => \A x \in {self, other} :
                                DecLe(out.money.amount, x.amount)
           /\ op = "max" => \A x \in {self, other} :
                                DecGe(out.money.amount, x.amount)
           /\ DecEq(self.amount, other.amount) => out.money = self
           /\ DecLe(min(self, other).money.amount,
                    max(self, other).money.amount)

\* C26 witness: min has returned the receiver for two values of equal
\* amount whose descriptors share the id and differ otherwise.
C26_Witness ==
    /\ op = "min"
    /\ is_same_currency(self.currency, other.currency)
    /\ self.currency # other.currency
    /\ DecEq(self.amount, other.amount)
    /\ out = OkMoney(self)

\* The number x is an integer number of ticks t (t # 0).
IsExactMultiple(x, t) ==
    LET e == MaxOf(x.e, t.e)
    IN  AtScale(x, e) % AtScale(DecAbs(t), e) = 0

\* C27: for every amount x and every positive tick t,
\* to_tick_down(t).amount <= x.amount <= to_tick_up(t).amount, and the
\* difference of the two is 0 when x is a multiple of t and exactly t
\* otherwise.
C27_DirectionalBracket ==
    (op \in {"to_tick_down", "to_tick_up"} /\ SignedMant(dec) > 0)
        => LET down == IF op = "to_tick_down" THEN out
                       ELSE to_tick_down(self, dec)
               up   == IF op = "to_tick_up" THEN out
                       ELSE to_tick_up(self, dec)
           IN  /\ IsOk(down)
               /\ IsOk(up)
               /\ DecLe(down.money.amount, self.amount)
               /\ DecLe(self.amount, up.money.amount)
               /\ DecEq(DecSub(up.money.amount, down.money.amount),
                        IF IsExactMultiple(self.amount, dec)
                        THEN DecimalZERO ELSE dec)

\* The magnitude of the difference of two amounts.
Distance(x, y) == DecAbs(DecSub(x, y))

\* C28: for every amount x, every positive tick t and each of the seven
\* strategies, v = x.to_tick(t, s) is a multiple of the tick by
\* is_multiple_of_tick, |v - x| < t, and for to_tick_nearest
\* |v - x| <= t / 2.
C28_TickResult ==
    (op \in TickOps /\ SignedMant(dec) > 0)
        => /\ IsOk(out)
           /\ is_multiple_of_tick(out.money, dec)
           /\ DecLt(Distance(out.money.amount, self.amount), dec)
           /\ op = "to_tick_nearest"
                  => LET d == Distance(out.money.amount, self.amount)
                     IN  DecLe(DecAdd(d, d), dec)

\* The calls that return a money value computed from the receiver.
PreservingOps ==
    { "plus_money", "minus_money", "multiplied_by_money", "divided_by_money",
      "plus_decimal", "minus_decimal", "multiplied_by_decimal",
      "divided_by_decimal", "add", "sub", "mul", "rounded", "round_dp",
      "round_dp_with_strategy", "to_tick", "to_tick_down", "to_tick_up",
      "to_tick_nearest", "abs", "negated", "floor", "ceil", "trunc",
      "normalize" }

\* C29: currency preservation: every successful operation (arithmetic with
\* a decimal or with a money value of the same currency, division, rounded
\* and round_dp, the tick operations, abs, negated, floor, ceil, trunc,
\* normalize, += and -=) returns or leaves a value whose currency descriptor
\* is the left operand's descriptor unchanged, whatever the calls made
\* before; only rescale changes it, and then only the precision field.
C29_CurrencyPreserved ==
    [][ /\ (op = "new" /\ op' \in PreservingOps /\ IsOk(out'))
            => /\ out'.money.currency = self.currency
               /\ self' = self
        /\ (op = "new" /\ op' \in AssignOps /\ IsOk(out'))
            => self'.currency = self.currency
        /\ (op = "new" /\ op' = "rescale" /\ IsOk(out'))
            => /\ out'.money.currency =
                      [self.currency EXCEPT !.precision = dec'.m]
               /\ self' = self ]_vars

\* C29 witness: on a value bound from the result of an earlier call, a
\* subtraction with a value of the same id and another descriptor has
\* returned a value in the receiver's descriptor.
C29_Witness ==
    /\ op = "minus_money"
    /\ self \in NegativeZeros
    /\ is_same_currency(self.currency, other.currency)
    /\ other.currency # self.currency
    /\ IsOk(out)
    /\ out.money.currency = self.currency

\* C30: for a negative tick t, is_multiple_of_tick(t) ignores the sign: it
\* returns the same boolean as is_multiple_of_tick(-t) for every amount (so
\* 10.50 is a multiple of -0.25 and of -0.01), although to_tick with the
\* same negative tick returns InvalidTick under every strategy.
C30_NegativeTickMembership ==
    (op = "is_multiple_of_tick" /\ SignedMant(dec) < 0)
        => /\ out = OkBool(is_multiple_of_tick(self, DecNeg(dec)))
           /\ \A s \in Strategies : to_tick(self, dec, s) = InvalidTick

\* C30 witness: 10.50 has been reported a multiple of the tick -0.01, which
\* takes the general path while 0.01 takes the fast one.
C30_Witness ==
    /\ op = "is_multiple_of_tick"
    /\ self.amount = DecimalNew(1050, 2)
    /\ dec = DecimalNew(-1, 2)
    /\ tick_power10_dp(dec) = <<>>
    /\ tick_power10_dp(DecNeg(dec)) = <<2>>
    /\ out = OkBool(TRUE)

=============================================================================
